---- MODULE Spec2Model ----
(***************************************************************************)
(* State-machine model of the csv-service import pipeline:                 *)
(*   - InMemoryJobQueue (queue/InMemoryJobQueue.ts) and its worker         *)
(*   - processCsvJob / persistProgress (services/jobs.service.ts)          *)
(*   - processFile (services/csv.service.ts)                               *)
(*   - the Job and Customer stores as the code uses them                   *)
(*   - the observer registry (services/sse.service.ts) and streamJob       *)
(*     (controllers/jobs.controller.ts)                                    *)
(* Node runs every handler to its next await without interruption, so one  *)
(* action is the code between two suspension points.                       *)
(***************************************************************************)
EXTENDS Integers, Sequences, FiniteSets, TLC

(***************************************************************************)
(* Bounds of the model.                                                    *)
(***************************************************************************)
\* uploads made to the queue (jobs are numbered 1..NumJobs as they arrive)
NumJobs == 3
\* largest number of data rows of the file of a single import
MaxRows == 3
\* uploads and largest number of data rows when the whole pipeline runs
PipelineJobs == 2
PipelineRows == 2
\* the scaled-down processFile options explored beside the defaults
SmallProgressEvery == 2
SmallMaxErrors == 1
\* observer connections the registry is driven with
NumObservers == 2
\* streamJob requests made while a file is imported, and the largest number
\* of data rows of that file
NumStreamers == 1
StreamRows == 1
\* the progressEvery option of that import
StreamProgressEvery == 1
\* keep-alive comments written on one observer connection
MaxPings == 1
\* calls made to sse.service.ts when the registry is driven alone
MaxCalls == 4
\* Error Records of the job whose error report is built
MaxReportErrors == 2

(***************************************************************************)
(* Program constants.                                                      *)
(***************************************************************************)
DEFAULT_PROGRESS_EVERY == 25
DEFAULT_MAX_ERRORS == 50
\* Mongo's duplicate-key error code, tested by processFile
DUPLICATE_KEY == 11000

Jobs == 1..NumJobs

\* the observer connections: one per streamJob request
Observers == 1..NumObservers

\* "undefined" / "null" of the source
Undefined == "undefined"

(***************************************************************************)
(* Strings are sequences of one-character strings, so that trim and        *)
(* toLowerCase do what String.prototype.trim / toLowerCase do.             *)
(***************************************************************************)
RECURSIVE TrimLeft(_)
TrimLeft(s) == IF s # <<>> /\ Head(s) = " " THEN TrimLeft(Tail(s)) ELSE s

RECURSIVE TrimRight(_)
TrimRight(s) ==
    IF s # <<>> /\ s[Len(s)] = " " THEN TrimRight(SubSeq(s, 1, Len(s) - 1)) ELSE s

Trim(s) == TrimRight(TrimLeft(s))

LowerChar(c) == CASE c = "A" -> "a" [] c = "B" -> "b" [] OTHER -> c

ToLowerCase(s) == [i \in 1..Len(s) |-> LowerChar(s[i])]

\* positions of character c in s
Positions(s, c) == {i \in 1..Len(s) : s[i] = c}

\* z.string().email(): one "@", a non-empty local part without blanks, and a
\* domain of at least two non-empty labels separated by "."
IsEmail(s) ==
    /\ Cardinality(Positions(s, "@")) = 1
    /\ Positions(s, " ") = {}
    /\ LET at == CHOOSE i \in Positions(s, "@") : TRUE
           dom == SubSeq(s, at + 1, Len(s))
       IN /\ at > 1
          /\ s[1] # "."
          /\ Positions(dom, ".") # {}
          /\ dom # <<>> /\ dom[1] # "." /\ dom[Len(dom)] # "."
          /\ \A i \in 1..(Len(dom) - 1) : ~(dom[i] = "." /\ dom[i + 1] = ".")

\* normalizeRow: every field trimmed, the email lowercased as well
normalizeRow(raw) ==
    [name    |-> Trim(raw.name),
     email   |-> ToLowerCase(Trim(raw.email)),
     phone   |-> Trim(raw.phone),
     company |-> Trim(raw.company)]

\* the issues customerRowSchema.safeParse reports, in the schema's field order
Issues(row) ==
    (IF Len(Trim(row.name)) >= 1 THEN <<>> ELSE <<"name is required">>)
    \o (IF IsEmail(Trim(row.email)) THEN <<>> ELSE <<"invalid email">>)
    \o (IF Len(Trim(row.company)) >= 1 THEN <<>> ELSE <<"company is required">>)

\* parsed.data: name, email and company trimmed by the schema, phone as given
ParsedData(row) ==
    [name    |-> Trim(row.name),
     email   |-> Trim(row.email),
     phone   |-> row.phone,
     company |-> Trim(row.company)]

\* issues.map(i => i.message).join(", ")
RECURSIVE JoinMessages(_)
JoinMessages(msgs) ==
    IF msgs = <<>> THEN ""
    ELSE IF Len(msgs) = 1 THEN msgs[1]
    ELSE msgs[1] \o ", " \o JoinMessages(Tail(msgs))

(***************************************************************************)
(* The rows a file may hold, as csv-parser yields them (raw strings).      *)
(***************************************************************************)
RowAda    == [name |-> <<"a">>, email |-> <<"A", "@", "b", ".", "a">>,
              phone |-> <<>>, company |-> <<"b">>]
RowAdaDup == [name |-> <<" ", "b">>, email |-> <<" ", "a", "@", "b", ".", "a">>,
              phone |-> <<>>, company |-> <<"b", " ">>]
RowNoName == [name |-> <<" ">>, email |-> <<"b", "@", "b", ".", "a">>,
              phone |-> <<>>, company |-> <<"a">>]
RowBad    == [name |-> <<>>, email |-> <<"B", "a">>,
              phone |-> <<>>, company |-> <<"a">>]

RawRows == {RowAda, RowAdaDup, RowNoName, RowBad}

\* the rows of the files uploaded when the whole pipeline runs
PipelineRowKinds == {RowAda, RowNoName}

(***************************************************************************)
(* State.                                                                  *)
(***************************************************************************)
VARIABLES
    \* InMemoryJobQueue
    queue,        \* this.queue: the pending tasks (job ids), oldest first
    running,      \* this.running
    started,      \* this.started
    awaiting,     \* the tasks whose worker promise a drain loop is awaiting;
                  \* one element per live drain loop
    immediates,   \* setImmediate callbacks scheduled by process() and not yet run
    \* uploadCsv
    upc,          \* per job: where its uploadCsv handler is
    fileLen,      \* per job: number of data rows of the uploaded file
    answered,     \* per job whose upload is examined: where its worker
                  \* invocation was when uploadCsv wrote the 201 response
                  \* ("no": not written yet)
    \* downloadErrorReport
    report,       \* what buildJobErrorReport returned to the last request
    \* stores
    store,        \* Job collection: the persisted document of each job
    customers,    \* Customer collection
    \* processFile options
    options,
    \* one processCsvJob invocation per task
    wpc,          \* per job: where the invocation is suspended
    job,          \* per job: the hydrated document held by the invocation
    progress,     \* per job: processFile's progress object
    currentRow,   \* per job: processFile's currentRow
    pos,          \* per job: data rows the second pass has read so far
    parsed,       \* per job: parsed.data of the row whose insert is in flight
    err,          \* per job: the error a catch block holds to rethrow
    unlinks,      \* per job: number of fs.unlink calls made for its file
    responses,    \* per job of a compared pair of runs: what its awaits settled
                  \* with so far (store and file system answers, rows read)
    \* history
    enqueued,     \* the tasks in the order enqueue() received them
    handed,       \* the tasks in the order the worker was invoked on them
    published,    \* per job: the events the importer handed to broadcast /
                  \* broadcastAndClose, in call order
    \* sse.service.ts
    clientsByJobId, \* the Map: job id -> its Set of responses, in insertion order
    \* one streamJob request per observer
    spc,          \* per observer: where its streamJob handler is
    watched,      \* per observer: the job id of the request (0: no request yet)
    snapshot,     \* per observer: the document its Job.findById(...).lean() read
    received,     \* per observer: the chunks written on its response
    broken,       \* per observer: res.write throws
    ended,        \* per observer: the caller of the first res.end() ("no": none)
    closed,       \* per observer: the request's "close" event was emitted
    pinging,      \* per observer: the keep-alive interval is set
    calls         \* calls made to sse.service.ts when the registry is driven alone

queueVars == <<queue, running, started, awaiting, immediates, enqueued, handed>>
uploadVars == <<upc, fileLen, answered, report>>
storeVars == <<store, customers>>
importVars == <<job, progress, currentRow, pos, parsed, err, unlinks, responses>>
observerVars == <<spc, watched, snapshot, broken, closed, pinging, calls>>
sseVars == <<published, clientsByJobId, received, ended, observerVars>>
vars == <<queueVars, uploadVars, storeVars, options, wpc, importVars, sseVars>>

(***************************************************************************)
(* Documents.                                                              *)
(***************************************************************************)
\* no document: findById returned null / nothing loaded yet
NoJob == [status |-> "none"]

\* createPendingJob: the document Job.create stores
PendingJob ==
    [status |-> "pending", totalRows |-> 0, processedRows |-> 0,
     successCount |-> 0, failedCount |-> 0, errors |-> <<>>,
     completedAt |-> FALSE]

\* JobSchema: the paths a save persists.  startedAt and lastError are not
\* paths of the schema; they live on the hydrated document only.
SchemaPaths(doc) ==
    [status |-> doc.status, totalRows |-> doc.totalRows,
     processedRows |-> doc.processedRows, successCount |-> doc.successCount,
     failedCount |-> doc.failedCount, errors |-> doc.errors,
     completedAt |-> doc.completedAt]

\* the document findById hydrates from the stored one
Hydrate(doc) ==
    [status |-> doc.status, totalRows |-> doc.totalRows,
     processedRows |-> doc.processedRows, successCount |-> doc.successCount,
     failedCount |-> doc.failedCount, errors |-> doc.errors,
     completedAt |-> doc.completedAt, startedAt |-> FALSE,
     lastError |-> Undefined]

\* no report was asked for yet
NoReport == [status |-> "none"]

\* mutant: the count of the first scan is dropped
NewProgressWithoutTotal(totalRows) ==
    [totalRows |-> 0, processedRows |-> 0, successCount |-> 0,
     failedCount |-> 0, errors |-> <<>>, lastError |-> Undefined]

\* processFile's initial progress object
NewProgress(totalRows) ==
    [totalRows |-> totalRows, processedRows |-> 0, successCount |-> 0,
     failedCount |-> 0, errors |-> <<>>, lastError |-> Undefined]

NoRow == [name |-> <<>>, email |-> <<>>, phone |-> <<>>, company |-> <<>>]

DefaultOptions ==
    [progressEvery |-> DEFAULT_PROGRESS_EVERY, maxErrors |-> DEFAULT_MAX_ERRORS]

\* processFile is run with its defaults (as processCsvJob calls it) and with
\* small options, under which the periodic flush and the error cap occur
\* within MaxRows rows
OptionChoices ==
    {DefaultOptions,
     [progressEvery |-> SmallProgressEvery, maxErrors |-> SmallMaxErrors]}

Init ==
    /\ queue = <<>>
    /\ running = FALSE
    /\ started = FALSE
    /\ awaiting = {}
    /\ immediates = 0
    /\ upc = [j \in Jobs |-> "none"]
    /\ fileLen = [j \in Jobs |-> 0]
    /\ report = NoReport
    /\ answered = <<>>
    /\ store = [j \in Jobs |-> NoJob]
    /\ customers = {}
    /\ options \in OptionChoices
    /\ wpc = [j \in Jobs |-> "none"]
    /\ job = [j \in Jobs |-> NoJob]
    /\ progress = [j \in Jobs |-> NewProgress(0)]
    /\ currentRow = [j \in Jobs |-> 1]
    /\ pos = [j \in Jobs |-> 0]
    /\ parsed = [j \in Jobs |-> NoRow]
    /\ err = [j \in Jobs |-> Undefined]
    /\ unlinks = [j \in Jobs |-> 0]
    /\ responses = <<>>
    /\ enqueued = <<>>
    /\ handed = <<>>
    /\ published = [j \in Jobs |-> <<>>]
    /\ clientsByJobId = <<>>
    /\ spc = [o \in Observers |-> "none"]
    /\ watched = [o \in Observers |-> 0]
    /\ snapshot = [o \in Observers |-> NoJob]
    /\ received = [o \in Observers |-> <<>>]
    /\ broken = [o \in Observers |-> FALSE]
    /\ ended = [o \in Observers |-> "no"]
    /\ closed = [o \in Observers |-> FALSE]
    /\ pinging = [o \in Observers |-> FALSE]
    /\ calls = 0

(***************************************************************************)
(* InMemoryJobQueue.                                                       *)
(***************************************************************************)
\* mutant: process() without the test of this.running
ReturnsEarlyIgnoringRunning(st, run) == ~st

\* process(): "if (!this.started || this.running) return;"
ReturnsEarly(st, run) == ~st \/ run

\* mutant: enqueue() puts the task at the front (unshift)
QueueUnshift(q, t) == <<t>> \o q

\* enqueue(): this.queue.push(job)
QueuePush(q, t) == Append(q, t)

\* mutant: the while loop goes on as long as the queue holds a task
LoopContinuesWhenStopped(st, q) == Len(q) > 0

\* process(): the condition of the while loop
LoopContinues(st, q) == st /\ Len(q) > 0

\* mutant: process() without the try/catch around the worker call
CaughtOnlyResolved(outcome) == outcome = "resolved"

\* process(): try { await this.worker(job) } catch { console.error(...) }:
\* the loop goes on to its next iteration whether the worker's promise
\* resolved or rejected
CaughtInLoop(outcome) == outcome \in {"resolved", "rejected"}

\* the worker of queue.ts calls processCsvJob, which runs to its first
\* await: the Job.findById lookup
InvokeWorker(t) == wpc' = [wpc EXCEPT ![t] = "find"]

\* process(): the finally block, with st, q, aw, im the values of started,
\* queue, awaiting and immediates when it runs
Finally(st, q, aw, im) ==
    /\ running' = FALSE
    /\ immediates' = IF st /\ Len(q) > 0 THEN im + 1 ELSE im
    /\ queue' = q
    /\ awaiting' = aw
    /\ handed' = handed
    /\ wpc' = wpc

\* process(): the while loop from its condition to its next await (or, when
\* the condition is false, through the finally block)
Drain(st, q, aw, im) ==
    IF LoopContinues(st, q)
    THEN /\ queue' = Tail(q)
         /\ handed' = Append(handed, Head(q))
         /\ InvokeWorker(Head(q))
         /\ awaiting' = aw \cup {Head(q)}
         /\ running' = TRUE
         /\ immediates' = im
    ELSE Finally(st, q, aw, im)

\* process(), called with started = st and queue = q
Process(st, q, aw, im) ==
    IF ReturnsEarly(st, running)
    THEN /\ queue' = q
         /\ awaiting' = aw
         /\ immediates' = im
         /\ UNCHANGED <<running, handed, wpc>>
    ELSE Drain(st, q, aw, im)

\* start(), when not yet started (otherwise it returns at once)
Start ==
    /\ ~started
    /\ started' = TRUE
    /\ Process(TRUE, queue, awaiting, immediates)
    /\ UNCHANGED <<enqueued, uploadVars, storeVars, options, importVars, sseVars>>

\* stop()
Stop ==
    /\ started
    /\ started' = FALSE
    /\ UNCHANGED <<queue, running, awaiting, immediates, enqueued, handed>>
    /\ UNCHANGED <<uploadVars, storeVars, options, wpc, importVars, sseVars>>

\* mutant: enqueue pushes the task and never calls process()
EnqueueOnlyPushes(t) ==
    /\ enqueued' = Append(enqueued, t)
    /\ queue' = QueuePush(queue, t)
    /\ UNCHANGED <<running, awaiting, immediates, handed, wpc>>
    /\ UNCHANGED started

\* enqueue(job)
Enqueue(t) ==
    /\ enqueued' = Append(enqueued, t)
    /\ IF started
       THEN Process(started, QueuePush(queue, t), awaiting, immediates)
       ELSE /\ queue' = QueuePush(queue, t)
            /\ UNCHANGED <<running, awaiting, immediates, handed, wpc>>
    /\ UNCHANGED started

\* mutant: once the awaited worker settled the drain cycle ends, whatever
\* the queue holds
LoopResumeExits(t) ==
    /\ t \in awaiting
    /\ wpc[t] \in {"resolved", "rejected"}
    /\ Finally(FALSE, queue, awaiting \ {t}, immediates)
    /\ UNCHANGED <<started, enqueued>>
    /\ UNCHANGED <<uploadVars, storeVars, options, importVars, sseVars>>

\* the drain loop resumes after "await this.worker(job)" settled for task t
LoopResume(t) ==
    /\ t \in awaiting
    /\ wpc[t] \in {"resolved", "rejected"}
    /\ IF CaughtInLoop(wpc[t])
       THEN Drain(started, queue, awaiting \ {t}, immediates)
       ELSE Finally(started, queue, awaiting \ {t}, immediates)
    /\ UNCHANGED <<started, enqueued>>
    /\ UNCHANGED <<uploadVars, storeVars, options, importVars, sseVars>>

\* the callback process() hands to setImmediate
ImmediateCallback ==
    /\ immediates > 0
    /\ Process(started, queue, awaiting, immediates - 1)
    /\ UNCHANGED <<started, enqueued>>
    /\ UNCHANGED <<uploadVars, storeVars, options, importVars, sseVars>>

\* a continuation of process(): after a worker settled, or from setImmediate
QueueContinuation ==
    /\ awaiting # {} \/ immediates > 0
    /\ \/ \E t \in awaiting : LoopResume(t)
       \/ ImmediateCallback

(***************************************************************************)
(* uploadCsv.                                                              *)
(***************************************************************************)
\* uploadCsv up to "await createPendingJob(...)": the file, of at most
\* maxRows data rows, is on disk and the Job.create is in flight
UploadCsv(j, maxRows) ==
    /\ upc[j] = "none"
    /\ \A i \in Jobs : i < j => upc[i] # "none"
    /\ \E n \in 0..maxRows : fileLen' = [fileLen EXCEPT ![j] = n]
    /\ upc' = [upc EXCEPT ![j] = "creating"]
    /\ UNCHANGED <<answered, report>>
    /\ UNCHANGED <<queueVars, storeVars, options, wpc, importVars, sseVars>>

\* uploadCsv after the await: enqueue, then answer 201 with the job id;
\* or Job.create rejected and the handler throws
UploadContinue(j) ==
    /\ upc[j] = "creating"
    /\ \/ /\ store' = [store EXCEPT ![j] = PendingJob]
          /\ Enqueue(j)
          /\ answered' = IF j \in DOMAIN answered
                         THEN [answered EXCEPT ![j] = wpc'[j]]
                         ELSE answered
          /\ upc' = [upc EXCEPT ![j] = "responded"]
       \/ /\ upc' = [upc EXCEPT ![j] = "failed"]
          /\ UNCHANGED <<queueVars, store, wpc, answered>>
    /\ UNCHANGED <<fileLen, report, customers, options, importVars, sseVars>>

(***************************************************************************)
(* processFile: the synchronous pieces.                                    *)
(***************************************************************************)
\* mutant: only a forced emitProgress flushes
EmitDueOnlyForced(force, p) == force

\* emitProgress(force): whether onProgress is called
EmitDue(force, p) == force \/ p.processedRows % options.progressEvery = 0

\* mutant: the record is pushed whatever the length of the list
PushErrorUncapped(errors, record) == Append(errors, record)

\* "if (progress.errors.length < maxErrors) progress.errors.push(record)"
PushError(errors, record) ==
    IF Len(errors) < options.maxErrors THEN Append(errors, record) ELSE errors

\* mutant: the invalid-row branch forgets processedRows
RowInvalidNotProcessed(p, rowNumber, message, raw) ==
    [p EXCEPT !.failedCount = @ + 1,
              !.lastError = message,
              !.errors = IF Len(@) < options.maxErrors
                         THEN Append(@, [rowNumber |-> rowNumber,
                                         message |-> message, row |-> raw])
                         ELSE @]

\* the branch "if (!parsed.success)": counters, lastError and Error Record
RowInvalid(p, rowNumber, message, raw) ==
    [p EXCEPT !.failedCount = @ + 1,
              !.processedRows = @ + 1,
              !.lastError = message,
              !.errors = PushError(@, [rowNumber |-> rowNumber,
                                       message |-> message, row |-> raw])]

\* mutant: an inserted row is counted as a failure as well
RowInsertedCountsFailure(p) ==
    [p EXCEPT !.successCount = @ + 1, !.failedCount = @ + 1,
              !.processedRows = @ + 1]

\* Customer.create resolved: successCount, then processedRows
RowInserted(p) ==
    [p EXCEPT !.successCount = @ + 1, !.processedRows = @ + 1]

\* the message of the catch around Customer.create
InsertMessage(code) ==
    IF code = DUPLICATE_KEY THEN "email must be unique"
    ELSE "failed to insert customer"

\* mutant: a row whose insert failed is not counted as processed
RowInsertFailedNotProcessed(p, rowNumber, code, data) ==
    [p EXCEPT !.failedCount = @ + 1,
              !.lastError = InsertMessage(code)]

\* Customer.create rejected with error code `code`: the catch block, then
\* processedRows
RowInsertFailed(p, rowNumber, code, data) ==
    [p EXCEPT !.failedCount = @ + 1,
              !.lastError = InsertMessage(code),
              !.errors = PushError(@, [rowNumber |-> rowNumber,
                                       message |-> InsertMessage(code),
                                       row |-> data]),
              !.processedRows = @ + 1]

\* mutant: the record is created without the id of its job
CustomerDocUntagged(data, jobId) ==
    IF data.phone = <<>>
    THEN [name |-> data.name, email |-> data.email, company |-> data.company,
          jobId |-> 0]
    ELSE [name |-> data.name, email |-> data.email, phone |-> data.phone,
          company |-> data.company, jobId |-> 0]

\* the document Customer.create is given: "phone: parsed.data.phone || undefined"
CustomerDoc(data, jobId) ==
    IF data.phone = <<>>
    THEN [name |-> data.name, email |-> data.email, company |-> data.company,
          jobId |-> jobId]
    ELSE [name |-> data.name, email |-> data.email, phone |-> data.phone,
          company |-> data.company, jobId |-> jobId]

\* CustomerSchema: email is lowercased and trimmed on save, and unique
StoredEmail(email) == ToLowerCase(Trim(email))
\* mutant: the collection has no unique index on email
EmailNeverTaken(email) == FALSE

\* the unique index: a record with that stored email exists
EmailTaken(email) == \E c \in customers : c.email = StoredEmail(email)

(***************************************************************************)
(* jobs.service.ts: the synchronous pieces.                                *)
(***************************************************************************)
\* persistProgress: the assignments before "await job.save()"
AssignProgress(doc, p) ==
    [doc EXCEPT !.totalRows = p.totalRows,
                !.processedRows = p.processedRows,
                !.successCount = p.successCount,
                !.failedCount = p.failedCount,
                !.errors = p.errors,
                !.lastError = p.lastError]

\* mutant: the first save leaves the status as it was
MarkProcessingKeepsStatus(doc) ==
    [doc EXCEPT !.startedAt = TRUE, !.completedAt = FALSE,
                !.lastError = Undefined]

\* processCsvJob: the assignments before its first save
MarkProcessing(doc) ==
    [doc EXCEPT !.status = "processing", !.startedAt = TRUE,
                !.completedAt = FALSE, !.lastError = Undefined]

\* mutant: a result of no rows does not complete the job
MarkCompletedIfRows(doc, result) ==
    IF result.totalRows = 0 THEN AssignProgress(doc, result)
    ELSE AssignProgress([doc EXCEPT !.status = "completed", !.completedAt = TRUE],
                        result)

\* processCsvJob: the assignments after processFile returned `result`
MarkCompleted(doc, result) ==
    AssignProgress([doc EXCEPT !.status = "completed", !.completedAt = TRUE],
                   result)

\* processCsvJob: the assignments of the catch block before its save
MarkFailed(doc, message) ==
    [doc EXCEPT !.status = "failed", !.completedAt = TRUE,
                !.lastError = message]

\* "await job.save()" resolved: the schema's paths of the document are stored
Saved(j) == store' = [store EXCEPT ![j] = SchemaPaths(job[j])]

\* processCsvJob's catch block is entered with error e, the document being doc
EnterCatch(j, e, doc) ==
    /\ job' = [job EXCEPT ![j] = MarkFailed(doc, e)]
    /\ err' = [err EXCEPT ![j] = e]
    /\ wpc' = [wpc EXCEPT ![j] = "failSave"]

\* processCsvJob's finally block (and its not-found path): safeDelete calls
\* fs.unlink and awaits it
CallSafeDelete(j) ==
    /\ unlinks' = [unlinks EXCEPT ![j] = @ + 1]
    /\ wpc' = [wpc EXCEPT ![j] = "unlink"]

\* processFile's catch block is entered with error e: lastError, then
\* emitProgress(true), whose save is awaited
EnterFileCatch(j, e) ==
    /\ progress' = [progress EXCEPT ![j].lastError = e]
    /\ job' = [job EXCEPT ![j] = AssignProgress(@, progress'[j])]
    /\ err' = [err EXCEPT ![j] = e]
    /\ wpc' = [wpc EXCEPT ![j] = "emitErr"]

\* mutant: currentRow is not advanced
AfterRowKeepsRowNumber(j, p) ==
    /\ progress' = [progress EXCEPT ![j] = p]
    /\ currentRow' = currentRow
    /\ IF EmitDue(FALSE, p)
       THEN /\ job' = [job EXCEPT ![j] = AssignProgress(@, p)]
            /\ wpc' = [wpc EXCEPT ![j] = "emit"]
       ELSE /\ job' = job
            /\ wpc' = [wpc EXCEPT ![j] = "read"]

\* after a row was counted: currentRow += 1, then emitProgress()
AfterRow(j, p) ==
    /\ progress' = [progress EXCEPT ![j] = p]
    /\ currentRow' = [currentRow EXCEPT ![j] = @ + 1]
    /\ IF EmitDue(FALSE, p)
       THEN /\ job' = [job EXCEPT ![j] = AssignProgress(@, p)]
            /\ wpc' = [wpc EXCEPT ![j] = "emit"]
       ELSE /\ job' = job
            /\ wpc' = [wpc EXCEPT ![j] = "read"]


\* CustomerSchema's setters: what the collection holds for a created document
StoredCustomer(doc) ==
    [c \in DOMAIN doc |->
        CASE c = "email" -> StoredEmail(doc.email)
          [] c = "jobId" -> doc.jobId
          [] OTHER -> Trim(doc[c])]

(***************************************************************************)
(* sse.service.ts: the observer registry.  A chunk is one res.write.       *)
(***************************************************************************)
\* the chunks sendEvent and broadcast write: `event: ${event}\n` and
\* `data: ${JSON.stringify(data)}\n\n`
EventLine(event) == [line |-> "event", event |-> event]
DataLine(data) == [line |-> "data", data |-> data]

\* writeSafe(res, chunk): whether res.write returned without throwing
WriteOk(o) == ~broken[o]

\* writeSafe(res, chunk): the chunks on every response afterwards, rc being
\* the chunks before; a throw of res.write is caught
writeSafe(rc, o, chunk) ==
    IF WriteOk(o) THEN [rc EXCEPT ![o] = Append(@, chunk)] ELSE rc

\* clientsByJobId.get(jobId) ?? new Set()
ClientsOf(reg, j) == IF j \in DOMAIN reg THEN reg[j] ELSE <<>>

\* the elements of a Set, kept as the sequence of its insertion order
Members(set) == {set[i] : i \in 1..Len(set)}

\* Set.prototype.add
SetAdd(set, o) == IF o \in Members(set) THEN set ELSE Append(set, o)

\* Set.prototype.delete
SetDelete(set, o) == SelectSeq(set, LAMBDA x : x # o)

\* Map.prototype.delete
MapDelete(reg, j) == [k \in DOMAIN reg \ {j} |-> reg[k]]

\* addClient(jobId, res)
addClient(reg, j, o) ==
    [k \in DOMAIN reg \cup {j} |->
        IF k = j THEN SetAdd(ClientsOf(reg, j), o) ELSE reg[k]]

\* mutant: removeClient leaves the entry of a job whose set became empty
removeClientKeepsEntry(reg, j, o) ==
    IF j \notin DOMAIN reg THEN reg
    ELSE [reg EXCEPT ![j] = SetDelete(@, o)]

\* removeClient(jobId, res)
removeClient(reg, j, o) ==
    IF j \notin DOMAIN reg THEN reg
    ELSE IF SetDelete(reg[j], o) = <<>> THEN MapDelete(reg, j)
    ELSE [reg EXCEPT ![j] = SetDelete(@, o)]

\* sendEvent(res, event, data)
sendEvent(rc, o, event, data) ==
    writeSafe(writeSafe(rc, o, EventLine(event)), o, DataLine(data))

\* mutant: the loop of broadcast ends at the first response whose write fails
RECURSIVE BroadcastUntilFailure(_, _, _, _)
BroadcastUntilFailure(rc, set, event, data) ==
    IF set = <<>> THEN rc
    ELSE IF ~WriteOk(Head(set)) THEN rc
    ELSE BroadcastUntilFailure(sendEvent(rc, Head(set), event, data),
                               Tail(set), event, data)

\* broadcast: the loop over the set, "if (!ok) continue" after the first write
RECURSIVE BroadcastLoop(_, _, _, _)
BroadcastLoop(rc, set, event, data) ==
    IF set = <<>> THEN rc
    ELSE IF ~WriteOk(Head(set))
         THEN BroadcastLoop(writeSafe(rc, Head(set), EventLine(event)),
                            Tail(set), event, data)
         ELSE BroadcastLoop(writeSafe(writeSafe(rc, Head(set), EventLine(event)),
                                      Head(set), DataLine(data)),
                            Tail(set), event, data)

\* broadcast(jobId, event, data): the chunks on every response afterwards
broadcast(rc, reg, j, event, data) ==
    IF j \notin DOMAIN reg THEN rc
    ELSE BroadcastLoop(rc, reg[j], event, data)

\* broadcastAndClose: the sendEvent calls of its loop
RECURSIVE SendToAll(_, _, _, _)
SendToAll(rc, set, event, data) ==
    IF set = <<>> THEN rc
    ELSE SendToAll(sendEvent(rc, Head(set), event, data), Tail(set), event, data)

\* res.end() called by `who`: the first call ends the response
EndedBy(en, o, who) == IF en[o] = "no" THEN [en EXCEPT ![o] = who] ELSE en

\* mutant: the loop of broadcastAndClose is left at the first response that
\* throws
RECURSIVE EndAllUntilFailure(_, _)
EndAllUntilFailure(en, set) ==
    IF set = <<>> THEN en
    ELSE IF ~WriteOk(Head(set)) THEN en
    ELSE EndAllUntilFailure(EndedBy(en, Head(set), "broadcastAndClose"), Tail(set))

\* broadcastAndClose: the res.end() calls of its loop
RECURSIVE EndAll(_, _)
EndAll(en, set) ==
    IF set = <<>> THEN en
    ELSE EndAll(EndedBy(en, Head(set), "broadcastAndClose"), Tail(set))

\* mutant: the event reports the rows processed as the rows imported
toProgressCountsAllImported(j, doc) ==
    [jobId |-> j, status |-> doc.status, totalRows |-> doc.totalRows,
     processedRows |-> doc.processedRows, successCount |-> doc.processedRows,
     failedCount |-> doc.failedCount, errorCount |-> Len(doc.errors),
     startedAt |-> doc.startedAt, completedAt |-> doc.completedAt,
     lastError |-> doc.lastError]

\* toProgress(job) of jobs.service.ts (filename and createdAt never change
\* and are left out)
toProgress(j, doc) ==
    [jobId |-> j, status |-> doc.status, totalRows |-> doc.totalRows,
     processedRows |-> doc.processedRows, successCount |-> doc.successCount,
     failedCount |-> doc.failedCount, errorCount |-> Len(doc.errors),
     startedAt |-> doc.startedAt, completedAt |-> doc.completedAt,
     lastError |-> doc.lastError]

\* toProgressPayload(jobId, job) of jobs.controller.ts, job being a lean
\* document: startedAt and lastError are not stored, hence undefined
toProgressPayload(j, doc) ==
    [jobId |-> j, status |-> doc.status, totalRows |-> doc.totalRows,
     processedRows |-> doc.processedRows, successCount |-> doc.successCount,
     failedCount |-> doc.failedCount, errorCount |-> Len(doc.errors),
     startedAt |-> FALSE, completedAt |-> doc.completedAt,
     lastError |-> Undefined]

\* the payload of a done event
DonePayload(j, status) == [jobId |-> j, status |-> status]

\* an entry of `published`
Event(event, data) == [event |-> event, data |-> data]

\* mutant: broadcast goes on only once every registered response took its
\* chunks
PublishProgressAwaitsWrites(j, doc) ==
    /\ \A o \in Members(ClientsOf(clientsByJobId, j)) : WriteOk(o)
    /\ published' = [published EXCEPT
                        ![j] = Append(@, Event("progress", toProgress(j, doc)))]
    /\ received' = broadcast(received, clientsByJobId, j, "progress",
                             toProgress(j, doc))
    /\ UNCHANGED <<clientsByJobId, ended>>

\* mutant: broadcast drops from the registry the responses whose write failed
PublishProgressDropsFailed(j, doc) ==
    /\ published' = [published EXCEPT
                        ![j] = Append(@, Event("progress", toProgress(j, doc)))]
    /\ received' = broadcast(received, clientsByJobId, j, "progress",
                             toProgress(j, doc))
    /\ clientsByJobId' =
          [k \in DOMAIN clientsByJobId |->
              IF k = j THEN SelectSeq(clientsByJobId[k], WriteOk)
              ELSE clientsByJobId[k]]
    /\ UNCHANGED ended

\* the importer calls broadcast(jobId, "progress", toProgress(job))
PublishProgress(j, doc) ==
    /\ published' = [published EXCEPT
                        ![j] = Append(@, Event("progress", toProgress(j, doc)))]
    /\ received' = broadcast(received, clientsByJobId, j, "progress",
                             toProgress(j, doc))
    /\ UNCHANGED <<clientsByJobId, ended>>

\* mutant: broadcastAndClose is called before the last broadcast
PublishDoneThenProgress(j, doc, status) ==
    /\ published' = [published EXCEPT
                        ![j] = @ \o <<Event("done", DonePayload(j, status)),
                                      Event("progress", toProgress(j, doc))>>]
    /\ received' = SendToAll(received, ClientsOf(clientsByJobId, j), "done",
                             DonePayload(j, status))
    /\ ended' = EndAll(ended, ClientsOf(clientsByJobId, j))
    /\ clientsByJobId' = MapDelete(clientsByJobId, j)

\* the importer calls broadcast(jobId, "progress", toProgress(job)) and then
\* broadcastAndClose(jobId, "done", { jobId, status })
PublishDone(j, doc, status) ==
    /\ published' = [published EXCEPT
                        ![j] = @ \o <<Event("progress", toProgress(j, doc)),
                                      Event("done", DonePayload(j, status))>>]
    /\ received' = SendToAll(broadcast(received, clientsByJobId, j, "progress",
                                       toProgress(j, doc)),
                             ClientsOf(clientsByJobId, j), "done",
                             DonePayload(j, status))
    /\ ended' = EndAll(ended, ClientsOf(clientsByJobId, j))
    /\ clientsByJobId' = MapDelete(clientsByJobId, j)

\* the importer step makes no call to the Progress Broadcaster
NoPublish == UNCHANGED <<published, clientsByJobId, received, ended>>

(***************************************************************************)
(* processCsvJob and processFile: one action per resumption.               *)
(***************************************************************************)
\* what an await settled with
Response(outcome) == [outcome |-> outcome]

\* the stream yielded the row `raw`
RowRead(raw) == [outcome |-> "row", row |-> raw]

\* job j's invocation resumes from an await that settled with r
Responds(j, r) ==
    responses' = IF j \in DOMAIN responses
                 THEN [responses EXCEPT ![j] = Append(@, r)]
                 ELSE responses

\* "await Job.findById(jobId)" settles: the document, null (the document was
\* removed from the collection in the meantime), or a rejection
FindSettles(j) ==
    /\ wpc[j] = "find"
    /\ \/ /\ store[j] # NoJob
          /\ job' = [job EXCEPT ![j] = MarkProcessing(Hydrate(store[j]))]
          /\ wpc' = [wpc EXCEPT ![j] = "save1"]
          /\ Responds(j, Response("found"))
          /\ UNCHANGED <<store, err, unlinks>>
       \/ /\ store' = [store EXCEPT ![j] = NoJob]
          /\ CallSafeDelete(j)
          /\ Responds(j, Response("null"))
          /\ UNCHANGED <<job, err>>
       \/ /\ err' = [err EXCEPT ![j] = "lookup failed"]
          /\ wpc' = [wpc EXCEPT ![j] = "rejected"]
          /\ Responds(j, Response("rejected"))
          /\ UNCHANGED <<store, job, unlinks>>
    /\ NoPublish
    /\ UNCHANGED <<queueVars, uploadVars, customers, options, observerVars>>
    /\ UNCHANGED <<progress, currentRow, pos, parsed>>

\* the first "await job.save()" settles; resolved: broadcast, then processFile
\* runs to "await countRows(...)"
FirstSaveSettles(j) ==
    /\ wpc[j] = "save1"
    /\ \/ /\ Saved(j)
          /\ PublishProgress(j, job[j])
          /\ wpc' = [wpc EXCEPT ![j] = "count"]
          /\ Responds(j, Response("resolved"))
          /\ UNCHANGED err
       \/ /\ err' = [err EXCEPT ![j] = "save failed"]
          /\ wpc' = [wpc EXCEPT ![j] = "rejected"]
          /\ Responds(j, Response("rejected"))
          /\ NoPublish
          /\ UNCHANGED store
    /\ UNCHANGED <<queueVars, uploadVars, customers, options, observerVars>>
    /\ UNCHANGED <<job, progress, currentRow, pos, parsed, unlinks>>

\* countRows settles; resolved: progress is built and emitProgress(true)
\* runs persistProgress to its save.  Rejected: processFile rejects (the
\* call is outside its try) into processCsvJob's catch
CountSettles(j) ==
    /\ wpc[j] = "count"
    /\ \/ /\ progress' = [progress EXCEPT ![j] = NewProgress(fileLen[j])]
          /\ currentRow' = [currentRow EXCEPT ![j] = 1]
          /\ job' = [job EXCEPT ![j] = AssignProgress(@, progress'[j])]
          /\ wpc' = [wpc EXCEPT ![j] = "emit0"]
          /\ Responds(j, Response("resolved"))
          /\ UNCHANGED err
       \/ /\ EnterCatch(j, "read failed", job[j])
          /\ Responds(j, Response("rejected"))
          /\ UNCHANGED <<progress, currentRow>>
    /\ NoPublish
    /\ UNCHANGED <<queueVars, uploadVars, storeVars, options, observerVars>>
    /\ UNCHANGED <<pos, parsed, unlinks>>

\* the save of the forced emitProgress before the loop settles; rejected:
\* processFile rejects (line 163 is outside its try)
FirstEmitSettles(j) ==
    /\ wpc[j] = "emit0"
    /\ \/ /\ Saved(j)
          /\ PublishProgress(j, job[j])
          /\ wpc' = [wpc EXCEPT ![j] = "read"]
          /\ Responds(j, Response("resolved"))
          /\ UNCHANGED <<job, err>>
       \/ /\ EnterCatch(j, "save failed", job[j])
          /\ Responds(j, Response("rejected"))
          /\ NoPublish
          /\ UNCHANGED store
    /\ UNCHANGED <<queueVars, uploadVars, customers, options, observerVars>>
    /\ UNCHANGED <<progress, currentRow, pos, parsed, unlinks>>

\* mutant: the next row is taken from the stream while the flush of the
\* row before is still awaited
ReadSettlesDuringFlush(j, rows) ==
    /\ wpc[j] \in {"read", "emit"}
    /\ \/ /\ pos[j] < fileLen[j]
          /\ pos' = [pos EXCEPT ![j] = @ + 1]
          /\ \E raw \in rows :
                LET data == normalizeRow(raw) IN
                /\ Responds(j, RowRead(raw))
                /\ IF Issues(data) # <<>>
                   THEN /\ AfterRow(j, RowInvalid(progress[j], currentRow[j],
                                                  JoinMessages(Issues(data)), raw))
                        /\ UNCHANGED parsed
                   ELSE /\ parsed' = [parsed EXCEPT ![j] = ParsedData(data)]
                        /\ wpc' = [wpc EXCEPT ![j] = "insert"]
                        /\ UNCHANGED <<job, progress, currentRow>>
          /\ UNCHANGED err
       \/ /\ pos[j] = fileLen[j]
          /\ job' = [job EXCEPT ![j] = AssignProgress(@, progress[j])]
          /\ wpc' = [wpc EXCEPT ![j] = "emitEnd"]
          /\ Responds(j, Response("end"))
          /\ UNCHANGED <<progress, currentRow, pos, parsed, err>>
       \/ /\ EnterFileCatch(j, "read failed")
          /\ Responds(j, Response("rejected"))
          /\ UNCHANGED <<currentRow, pos, parsed>>
    /\ NoPublish
    /\ UNCHANGED <<queueVars, uploadVars, storeVars, options, unlinks>>
    /\ UNCHANGED observerVars

\* the stream yields its next row (one of `rows`), ends, or fails
ReadSettles(j, rows) ==
    /\ wpc[j] = "read"
    /\ \/ /\ pos[j] < fileLen[j]
          /\ pos' = [pos EXCEPT ![j] = @ + 1]
          /\ \E raw \in rows :
                LET data == normalizeRow(raw) IN
                /\ Responds(j, RowRead(raw))
                /\ IF Issues(data) # <<>>
                   THEN /\ AfterRow(j, RowInvalid(progress[j], currentRow[j],
                                                  JoinMessages(Issues(data)), raw))
                        /\ UNCHANGED parsed
                   ELSE /\ parsed' = [parsed EXCEPT ![j] = ParsedData(data)]
                        /\ wpc' = [wpc EXCEPT ![j] = "insert"]
                        /\ UNCHANGED <<job, progress, currentRow>>
          /\ UNCHANGED err
       \/ /\ pos[j] = fileLen[j]
          /\ job' = [job EXCEPT ![j] = AssignProgress(@, progress[j])]
          /\ wpc' = [wpc EXCEPT ![j] = "emitEnd"]
          /\ Responds(j, Response("end"))
          /\ UNCHANGED <<progress, currentRow, pos, parsed, err>>
       \/ /\ EnterFileCatch(j, "read failed")
          /\ Responds(j, Response("rejected"))
          /\ UNCHANGED <<currentRow, pos, parsed>>
    /\ NoPublish
    /\ UNCHANGED <<queueVars, uploadVars, storeVars, options, unlinks>>
    /\ UNCHANGED observerVars

\* "await Customer.create(...)" settles: created, duplicate key, other error
InsertSettles(j) ==
    /\ wpc[j] = "insert"
    /\ \/ /\ ~EmailTaken(parsed[j].email)
          /\ customers' = customers \cup {StoredCustomer(CustomerDoc(parsed[j], j))}
          /\ AfterRow(j, RowInserted(progress[j]))
          /\ Responds(j, Response("created"))
       \/ /\ EmailTaken(parsed[j].email)
          /\ AfterRow(j, RowInsertFailed(progress[j], currentRow[j],
                                         DUPLICATE_KEY, parsed[j]))
          /\ Responds(j, Response("duplicate"))
          /\ UNCHANGED customers
       \/ /\ AfterRow(j, RowInsertFailed(progress[j], currentRow[j], 0, parsed[j]))
          /\ Responds(j, Response("rejected"))
          /\ UNCHANGED customers
    /\ parsed' = [parsed EXCEPT ![j] = NoRow]
    /\ NoPublish
    /\ UNCHANGED <<queueVars, uploadVars, store, options, observerVars>>
    /\ UNCHANGED <<pos, err, unlinks>>

\* the save of a periodic emitProgress() settles; rejected: processFile's catch
EmitSettles(j) ==
    /\ wpc[j] = "emit"
    /\ \/ /\ Saved(j)
          /\ PublishProgress(j, job[j])
          /\ wpc' = [wpc EXCEPT ![j] = "read"]
          /\ Responds(j, Response("resolved"))
          /\ UNCHANGED <<job, progress, err>>
       \/ /\ EnterFileCatch(j, "save failed")
          /\ Responds(j, Response("rejected"))
          /\ NoPublish
          /\ UNCHANGED store
    /\ UNCHANGED <<queueVars, uploadVars, customers, options, observerVars>>
    /\ UNCHANGED <<currentRow, pos, parsed, unlinks>>

\* the save of the forced emitProgress after the loop settles; resolved:
\* processFile returns, processCsvJob marks the job completed and
\* persistProgress runs to its save
LastEmitSettles(j) ==
    /\ wpc[j] = "emitEnd"
    /\ \/ /\ Saved(j)
          /\ PublishProgress(j, job[j])
          /\ job' = [job EXCEPT ![j] = MarkCompleted(@, progress[j])]
          /\ wpc' = [wpc EXCEPT ![j] = "final"]
          /\ Responds(j, Response("resolved"))
          /\ UNCHANGED <<progress, err>>
       \/ /\ EnterFileCatch(j, "save failed")
          /\ Responds(j, Response("rejected"))
          /\ NoPublish
          /\ UNCHANGED store
    /\ UNCHANGED <<queueVars, uploadVars, customers, options, observerVars>>
    /\ UNCHANGED <<currentRow, pos, parsed, unlinks>>

\* the save of the emitProgress(true) in processFile's catch settles;
\* resolved: the held error is rethrown; rejected: the save's error is thrown
CatchEmitSettles(j) ==
    /\ wpc[j] = "emitErr"
    /\ \/ /\ Saved(j)
          /\ PublishProgress(j, job[j])
          /\ EnterCatch(j, err[j], job[j])
          /\ Responds(j, Response("resolved"))
       \/ /\ EnterCatch(j, "save failed", job[j])
          /\ Responds(j, Response("rejected"))
          /\ NoPublish
          /\ UNCHANGED store
    /\ UNCHANGED <<queueVars, uploadVars, customers, options, observerVars>>
    /\ UNCHANGED <<progress, currentRow, pos, parsed, unlinks>>

\* the save of persistProgress(job, result) settles; resolved: broadcast,
\* broadcastAndClose("done", completed), then the finally block
FinalSaveSettles(j) ==
    /\ wpc[j] = "final"
    /\ \/ /\ Saved(j)
          /\ PublishDone(j, job[j], "completed")
          /\ CallSafeDelete(j)
          /\ Responds(j, Response("resolved"))
          /\ UNCHANGED <<job, err>>
       \/ /\ EnterCatch(j, "save failed", job[j])
          /\ Responds(j, Response("rejected"))
          /\ NoPublish
          /\ UNCHANGED <<store, unlinks>>
    /\ UNCHANGED <<queueVars, uploadVars, customers, options, observerVars>>
    /\ UNCHANGED <<progress, currentRow, pos, parsed>>

\* the save of the catch block settles; resolved: broadcast,
\* broadcastAndClose("done", failed), "throw err"; rejected: the save's
\* error leaves the catch block.  Either way the finally block follows
CatchSaveSettles(j) ==
    /\ wpc[j] = "failSave"
    /\ \/ /\ Saved(j)
          /\ PublishDone(j, job[j], "failed")
          /\ Responds(j, Response("resolved"))
          /\ UNCHANGED err
       \/ /\ err' = [err EXCEPT ![j] = "save failed"]
          /\ Responds(j, Response("rejected"))
          /\ NoPublish
          /\ UNCHANGED store
    /\ CallSafeDelete(j)
    /\ UNCHANGED <<queueVars, uploadVars, customers, options, observerVars>>
    /\ UNCHANGED <<job, progress, currentRow, pos, parsed>>

\* safeDelete's "await fs.unlink" settles (a rejection is swallowed) and the
\* invocation settles: rejected when an error is being thrown
UnlinkSettles(j) ==
    /\ wpc[j] = "unlink"
    /\ wpc' = [wpc EXCEPT ![j] = IF err[j] = Undefined THEN "resolved"
                                 ELSE "rejected"]
    /\ UNCHANGED <<queueVars, uploadVars, storeVars, options, importVars, sseVars>>

WorkerStep(j, rows) ==
    \/ FindSettles(j)
    \/ FirstSaveSettles(j)
    \/ CountSettles(j)
    \/ FirstEmitSettles(j)
    \/ ReadSettles(j, rows)
    \/ InsertSettles(j)
    \/ EmitSettles(j)
    \/ LastEmitSettles(j)
    \/ CatchEmitSettles(j)
    \/ FinalSaveSettles(j)
    \/ CatchSaveSettles(j)
    \/ UnlinkSettles(j)

(***************************************************************************)
(* The whole pipeline: uploads, the queue, the importer.                   *)
(***************************************************************************)
Next ==
    \/ Start
    \/ Stop
    \/ \E j \in 1..PipelineJobs : UploadCsv(j, PipelineRows)
    \/ \E j \in Jobs : UploadContinue(j)
    \/ QueueContinuation
    \/ \E j \in Jobs : WorkerStep(j, PipelineRowKinds)

Spec == Init /\ [][Next]_vars

(***************************************************************************)
(* One import: the server has started the queue (server.ts) and one file   *)
(* is uploaded; the Customer collection may hold a record of an earlier    *)
(* job.                                                                    *)
(***************************************************************************)
EarlierCustomer == StoredCustomer(CustomerDoc(ParsedData(normalizeRow(RowAda)), 0))

InitImport ==
    /\ queue = <<>>
    /\ running = FALSE
    /\ started = TRUE
    /\ awaiting = {}
    /\ immediates = 0
    /\ upc = [j \in Jobs |-> "none"]
    /\ fileLen = [j \in Jobs |-> 0]
    /\ report = NoReport
    /\ answered = [j \in Jobs |-> "no"]
    /\ store = [j \in Jobs |-> NoJob]
    /\ customers \in {{}, {EarlierCustomer}}
    /\ options \in OptionChoices
    /\ wpc = [j \in Jobs |-> "none"]
    /\ job = [j \in Jobs |-> NoJob]
    /\ progress = [j \in Jobs |-> NewProgress(0)]
    /\ currentRow = [j \in Jobs |-> 1]
    /\ pos = [j \in Jobs |-> 0]
    /\ parsed = [j \in Jobs |-> NoRow]
    /\ err = [j \in Jobs |-> Undefined]
    /\ unlinks = [j \in Jobs |-> 0]
    /\ responses = <<>>
    /\ enqueued = <<>>
    /\ handed = <<>>
    /\ published = [j \in Jobs |-> <<>>]
    /\ clientsByJobId = <<>>
    /\ spc = [o \in Observers |-> "none"]
    /\ watched = [o \in Observers |-> 0]
    /\ snapshot = [o \in Observers |-> NoJob]
    /\ received = [o \in Observers |-> <<>>]
    /\ broken = [o \in Observers |-> FALSE]
    /\ ended = [o \in Observers |-> "no"]
    /\ closed = [o \in Observers |-> FALSE]
    /\ pinging = [o \in Observers |-> FALSE]
    /\ calls = 0

NextImport ==
    \/ UploadCsv(1, MaxRows)
    \/ UploadContinue(1)
    \/ QueueContinuation
    \/ WorkerStep(1, RawRows)

SpecImport == InitImport /\ [][NextImport]_vars

(***************************************************************************)
(* The queue alone: InMemoryJobQueue with a worker of its Worker type, a   *)
(* function whose promise resolves or rejects.                             *)
(***************************************************************************)
\* the promise of "this.worker(job)" settles
WorkerSettles(t) ==
    /\ wpc[t] = "find"
    /\ \E outcome \in {"resolved", "rejected"} :
            wpc' = [wpc EXCEPT ![t] = outcome]
    /\ UNCHANGED <<queueVars, uploadVars, storeVars, options, importVars, sseVars>>

NextQueue ==
    \/ Start
    \/ Stop
    \/ \E j \in Jobs : UploadCsv(j, 0)
    \/ \E j \in Jobs : UploadContinue(j)
    \/ QueueContinuation
    \/ \E j \in Jobs : WorkerSettles(j)

SpecQueue == Init /\ [][NextQueue]_vars

\* the queue as the server runs it: start() and never stop().  The event
\* loop runs every continuation that is due, and every worker invocation
\* settles
NextQueueLive ==
    \/ Start
    \/ \E j \in Jobs : UploadCsv(j, 0)
    \/ \E j \in Jobs : UploadContinue(j)
    \/ QueueContinuation
    \/ \E j \in Jobs : WorkerSettles(j)

SpecQueueLive ==
    /\ Init
    /\ [][NextQueueLive]_vars
    /\ WF_vars(QueueContinuation)
    /\ \A j \in Jobs : WF_vars(WorkerSettles(j))

\* the queue with start() and stop() called at any moment, the event loop
\* running every continuation that is due and every worker invocation
\* settling
SpecQueueStopStart ==
    /\ Init
    /\ [][NextQueue]_vars
    /\ WF_vars(QueueContinuation)
    /\ \A j \in Jobs : WF_vars(WorkerSettles(j))

(***************************************************************************)
(* streamJob (jobs.controller.ts) and the observer's connection.           *)
(***************************************************************************)
\* the chunks streamJob writes itself
RetryLine == [line |-> "retry"]
NotFoundLine == [line |-> "error", message |-> "job not found"]
PingLine == [line |-> "ping"]

\* mutant: isTerminal knows the completed status only
isTerminalOnlyCompleted(status) == status = "completed"

\* isTerminal(status)
isTerminal(status) == status = "completed" \/ status = "failed"

\* the keep-alive comments written so far on a response
Pings(o) == Cardinality({i \in 1..Len(received[o]) : received[o][i] = PingLine})

\* mutant: streamJob registers the response before it looks the job up
StreamJobRegistersFirst(o, j) ==
    /\ spc[o] = "none"
    /\ \A p \in Observers : p < o => spc[p] # "none"
    /\ watched' = [watched EXCEPT ![o] = j]
    /\ received' = [received EXCEPT ![o] = Append(@, RetryLine)]
    /\ snapshot' = [snapshot EXCEPT ![o] = store[j]]
    /\ clientsByJobId' = addClient(clientsByJobId, j, o)
    /\ spc' = [spc EXCEPT ![o] = "lookup"]
    /\ UNCHANGED <<queueVars, uploadVars, storeVars, options, wpc, importVars>>
    /\ UNCHANGED <<published, ended, broken, closed, pinging, calls>>

\* streamJob up to "await Job.findById(jobId).lean()": the headers and the
\* retry hint are written and the query is sent.  The query reads the
\* collection at some moment before the handler goes on, and the handler
\* does nothing else in between: the request is taken at that moment
StreamJob(o, j) ==
    /\ spc[o] = "none"
    /\ \A p \in Observers : p < o => spc[p] # "none"
    /\ watched' = [watched EXCEPT ![o] = j]
    /\ received' = [received EXCEPT ![o] = Append(@, RetryLine)]
    /\ snapshot' = [snapshot EXCEPT ![o] = store[j]]
    /\ spc' = [spc EXCEPT ![o] = "lookup"]
    /\ UNCHANGED <<queueVars, uploadVars, storeVars, options, wpc, importVars>>
    /\ UNCHANGED <<published, clientsByJobId, ended, broken, closed, pinging, calls>>

\* streamJob after the await.  The query rejected (or a bare res.write
\* threw): next(err).  No document: the error event, res.end().  Otherwise
\* the snapshot is sent as a progress event; a terminal job gets done and
\* res.end(), any other is registered with addClient, the keep-alive
\* interval is set and the close listener attached
StreamContinue(o) ==
    /\ spc[o] = "lookup"
    /\ LET j == watched[o]
           doc == snapshot[o]
           sent == sendEvent(received, o, "progress", toProgressPayload(j, doc))
       IN \/ /\ spc' = [spc EXCEPT ![o] = "failed"]
             /\ UNCHANGED <<received, ended, clientsByJobId, pinging>>
          \/ /\ doc = NoJob
             /\ IF WriteOk(o)
                THEN /\ received' = [received EXCEPT ![o] = Append(@, NotFoundLine)]
                     /\ ended' = EndedBy(ended, o, "streamJob")
                     /\ spc' = [spc EXCEPT ![o] = "finished"]
                ELSE /\ spc' = [spc EXCEPT ![o] = "failed"]
                     /\ UNCHANGED <<received, ended>>
             /\ UNCHANGED <<clientsByJobId, pinging>>
          \/ /\ doc # NoJob
             /\ IF isTerminal(doc.status)
                THEN /\ received' = sendEvent(sent, o, "done",
                                              DonePayload(j, doc.status))
                     /\ ended' = EndedBy(ended, o, "streamJob")
                     /\ spc' = [spc EXCEPT ![o] = "finished"]
                     /\ UNCHANGED <<clientsByJobId, pinging>>
                ELSE /\ received' = sent
                     /\ clientsByJobId' = addClient(clientsByJobId, j, o)
                     /\ pinging' = [pinging EXCEPT ![o] = TRUE]
                     /\ spc' = [spc EXCEPT ![o] = "attached"]
                     /\ UNCHANGED ended
    /\ UNCHANGED <<queueVars, uploadVars, storeVars, options, wpc, importVars>>
    /\ UNCHANGED <<published, watched, snapshot, broken, closed, calls>>

\* the request emits "close" (the client went away, or the ended response's
\* socket closed).  With the listener attached: clearInterval, removeClient,
\* res.end().  Emitted before the listener was attached, nothing runs
ClientCloses(o) ==
    /\ spc[o] \in {"lookup", "attached"}
    /\ ~closed[o]
    /\ closed' = [closed EXCEPT ![o] = TRUE]
    /\ IF spc[o] = "attached"
       THEN /\ pinging' = [pinging EXCEPT ![o] = FALSE]
            /\ clientsByJobId' = removeClient(clientsByJobId, watched[o], o)
            /\ ended' = EndedBy(ended, o, "close")
       ELSE UNCHANGED <<pinging, clientsByJobId, ended>>
    /\ UNCHANGED <<queueVars, uploadVars, storeVars, options, wpc, importVars>>
    /\ UNCHANGED <<published, spc, watched, snapshot, received, broken, calls>>

\* the response of an open connection starts to throw on write
ConnectionBreaks(o) ==
    /\ spc[o] \in {"lookup", "attached"}
    /\ ~broken[o]
    /\ broken' = [broken EXCEPT ![o] = TRUE]
    /\ UNCHANGED <<queueVars, uploadVars, storeVars, options, wpc, importVars>>
    /\ UNCHANGED <<published, clientsByJobId, received, ended>>
    /\ UNCHANGED <<spc, watched, snapshot, closed, pinging, calls>>

\* the keep-alive interval fires: res.write(": ping"), which reaches the
\* client when the write does not throw and the response has not ended
PingTick(o) ==
    /\ pinging[o]
    /\ Pings(o) < MaxPings
    /\ received' = IF WriteOk(o) /\ ended[o] = "no"
                   THEN [received EXCEPT ![o] = Append(@, PingLine)]
                   ELSE received
    /\ UNCHANGED <<queueVars, uploadVars, storeVars, options, wpc, importVars>>
    /\ UNCHANGED <<published, clientsByJobId, ended, observerVars>>

(***************************************************************************)
(* One import with observers: the started queue, one upload, and the       *)
(* streamJob requests for its job.                                         *)
(***************************************************************************)
\* the rows of the file imported while observers attach
StreamRowKinds == {RowAda}

\* processFile is run with its defaults and with a flush every
\* StreamProgressEvery rows, so that the periodic flush occurs within
\* StreamRows rows
StreamOptions ==
    [progressEvery |-> StreamProgressEvery, maxErrors |-> DEFAULT_MAX_ERRORS]

InitStream ==
    /\ queue = <<>>
    /\ running = FALSE
    /\ started = TRUE
    /\ awaiting = {}
    /\ immediates = 0
    /\ upc = [j \in Jobs |-> "none"]
    /\ fileLen = [j \in Jobs |-> 0]
    /\ report = NoReport
    /\ answered = <<>>
    /\ store = [j \in Jobs |-> NoJob]
    /\ customers = {}
    /\ options \in {DefaultOptions, StreamOptions}
    /\ wpc = [j \in Jobs |-> "none"]
    /\ job = [j \in Jobs |-> NoJob]
    /\ progress = [j \in Jobs |-> NewProgress(0)]
    /\ currentRow = [j \in Jobs |-> 1]
    /\ pos = [j \in Jobs |-> 0]
    /\ parsed = [j \in Jobs |-> NoRow]
    /\ err = [j \in Jobs |-> Undefined]
    /\ unlinks = [j \in Jobs |-> 0]
    /\ responses = <<>>
    /\ enqueued = <<>>
    /\ handed = <<>>
    /\ published = [j \in Jobs |-> <<>>]
    /\ clientsByJobId = <<>>
    /\ spc = [o \in Observers |-> "none"]
    /\ watched = [o \in Observers |-> 0]
    /\ snapshot = [o \in Observers |-> NoJob]
    /\ received = [o \in Observers |-> <<>>]
    /\ broken = [o \in Observers |-> FALSE]
    /\ ended = [o \in Observers |-> "no"]
    /\ closed = [o \in Observers |-> FALSE]
    /\ pinging = [o \in Observers |-> FALSE]
    /\ calls = 0

NextStream ==
    \/ UploadCsv(1, StreamRows)
    \/ UploadContinue(1)
    \/ QueueContinuation
    \/ WorkerStep(1, StreamRowKinds)
    \/ \E o \in 1..NumStreamers : StreamJob(o, 1)
    \/ \E o \in Observers : StreamContinue(o)
    \/ \E o \in Observers : ClientCloses(o)
    \/ \E o \in Observers : ConnectionBreaks(o)
    \/ \E o \in Observers : PingTick(o)

SpecStream == InitStream /\ [][NextStream]_vars

(***************************************************************************)
(* Two imports of one file by one server, compared: the file was uploaded  *)
(* twice, job 1 is with the worker and job 2 waits in the queue.  Job 1    *)
(* has observers, job 2 has none.  What the awaits of each invocation      *)
(* settle with is recorded in `responses`.                                 *)
(***************************************************************************)
TwinJobs == {1, 2}

\* the rows of the file
TwinRowKinds == {RowAda}

InitTwin ==
    /\ queue = <<2>>
    /\ running = TRUE
    /\ started = TRUE
    /\ awaiting = {1}
    /\ immediates = 0
    /\ upc = [j \in Jobs |-> IF j \in TwinJobs THEN "responded" ELSE "none"]
    /\ \E n \in 0..StreamRows :
          fileLen = [j \in Jobs |-> IF j \in TwinJobs THEN n ELSE 0]
    /\ report = NoReport
    /\ answered = <<>>
    /\ store = [j \in Jobs |-> IF j \in TwinJobs THEN PendingJob ELSE NoJob]
    /\ customers \in {{}, {EarlierCustomer}}
    /\ options = StreamOptions
    /\ wpc = [j \in Jobs |-> IF j = 1 THEN "find" ELSE "none"]
    /\ job = [j \in Jobs |-> NoJob]
    /\ progress = [j \in Jobs |-> NewProgress(0)]
    /\ currentRow = [j \in Jobs |-> 1]
    /\ pos = [j \in Jobs |-> 0]
    /\ parsed = [j \in Jobs |-> NoRow]
    /\ err = [j \in Jobs |-> Undefined]
    /\ unlinks = [j \in Jobs |-> 0]
    /\ responses = [j \in TwinJobs |-> <<>>]
    /\ enqueued = <<1, 2>>
    /\ handed = <<1>>
    /\ published = [j \in Jobs |-> <<>>]
    /\ clientsByJobId = <<>>
    /\ spc = [o \in Observers |-> "none"]
    /\ watched = [o \in Observers |-> 0]
    /\ snapshot = [o \in Observers |-> NoJob]
    /\ received = [o \in Observers |-> <<>>]
    /\ broken = [o \in Observers |-> FALSE]
    /\ ended = [o \in Observers |-> "no"]
    /\ closed = [o \in Observers |-> FALSE]
    /\ pinging = [o \in Observers |-> FALSE]
    /\ calls = 0

NextTwin ==
    \/ QueueContinuation
    \/ \E j \in TwinJobs : WorkerStep(j, TwinRowKinds)
    \/ \E o \in 1..NumStreamers : StreamJob(o, 1)
    \/ \E o \in Observers : StreamContinue(o)
    \/ \E o \in Observers : ClientCloses(o)
    \/ \E o \in Observers : ConnectionBreaks(o)

SpecTwin == InitTwin /\ [][NextTwin]_vars

(***************************************************************************)
(* The registry alone: sse.service.ts driven by any sequence of calls to   *)
(* its exported functions, on responses some of which throw on write.      *)
(***************************************************************************)
\* the job ids the calls are made with
RegistryJobs == {1, 2}

\* the payload of the progress events broadcast here
SomeProgress(j) == toProgress(j, Hydrate(PendingJob))

\* a call of addClient(jobId, res)
CallAddClient(j, o) ==
    /\ calls < MaxCalls
    /\ calls' = calls + 1
    /\ clientsByJobId' = addClient(clientsByJobId, j, o)
    /\ UNCHANGED <<queueVars, uploadVars, storeVars, options, wpc, importVars>>
    /\ UNCHANGED <<published, received, ended>>
    /\ UNCHANGED <<spc, watched, snapshot, broken, closed, pinging>>

\* a call of removeClient(jobId, res)
CallRemoveClient(j, o) ==
    /\ calls < MaxCalls
    /\ calls' = calls + 1
    /\ clientsByJobId' = removeClient(clientsByJobId, j, o)
    /\ UNCHANGED <<queueVars, uploadVars, storeVars, options, wpc, importVars>>
    /\ UNCHANGED <<published, received, ended>>
    /\ UNCHANGED <<spc, watched, snapshot, broken, closed, pinging>>

\* a call of broadcast(jobId, "progress", data)
CallBroadcast(j) ==
    /\ calls < MaxCalls
    /\ calls' = calls + 1
    /\ PublishProgress(j, Hydrate(PendingJob))
    /\ UNCHANGED <<queueVars, uploadVars, storeVars, options, wpc, importVars>>
    /\ UNCHANGED <<spc, watched, snapshot, broken, closed, pinging>>

\* a call of broadcastAndClose(jobId, "done", data)
CallBroadcastAndClose(j) ==
    /\ calls < MaxCalls
    /\ calls' = calls + 1
    /\ published' = [published EXCEPT
                        ![j] = Append(@, Event("done", DonePayload(j, "completed")))]
    /\ received' = SendToAll(received, ClientsOf(clientsByJobId, j), "done",
                             DonePayload(j, "completed"))
    /\ ended' = EndAll(ended, ClientsOf(clientsByJobId, j))
    /\ clientsByJobId' = MapDelete(clientsByJobId, j)
    /\ UNCHANGED <<queueVars, uploadVars, storeVars, options, wpc, importVars>>
    /\ UNCHANGED <<spc, watched, snapshot, broken, closed, pinging>>

InitRegistry ==
    /\ queue = <<>>
    /\ running = FALSE
    /\ started = TRUE
    /\ awaiting = {}
    /\ immediates = 0
    /\ upc = [j \in Jobs |-> "none"]
    /\ fileLen = [j \in Jobs |-> 0]
    /\ report = NoReport
    /\ answered = <<>>
    /\ store = [j \in Jobs |-> NoJob]
    /\ customers = {}
    /\ options = DefaultOptions
    /\ wpc = [j \in Jobs |-> "none"]
    /\ job = [j \in Jobs |-> NoJob]
    /\ progress = [j \in Jobs |-> NewProgress(0)]
    /\ currentRow = [j \in Jobs |-> 1]
    /\ pos = [j \in Jobs |-> 0]
    /\ parsed = [j \in Jobs |-> NoRow]
    /\ err = [j \in Jobs |-> Undefined]
    /\ unlinks = [j \in Jobs |-> 0]
    /\ responses = <<>>
    /\ enqueued = <<>>
    /\ handed = <<>>
    /\ published = [j \in Jobs |-> <<>>]
    /\ clientsByJobId = <<>>
    /\ spc = [o \in Observers |-> "none"]
    /\ watched = [o \in Observers |-> 0]
    /\ snapshot = [o \in Observers |-> NoJob]
    /\ received = [o \in Observers |-> <<>>]
    /\ broken \in [Observers -> BOOLEAN]
    /\ ended = [o \in Observers |-> "no"]
    /\ closed = [o \in Observers |-> FALSE]
    /\ pinging = [o \in Observers |-> FALSE]
    /\ calls = 0

NextRegistry ==
    \/ \E j \in RegistryJobs, o \in Observers : CallAddClient(j, o)
    \/ \E j \in RegistryJobs, o \in Observers : CallRemoveClient(j, o)
    \/ \E j \in RegistryJobs : CallBroadcast(j)
    \/ \E j \in RegistryJobs : CallBroadcastAndClose(j)

SpecRegistry == InitRegistry /\ [][NextRegistry]_vars

(***************************************************************************)
(* buildJobErrorReport (jobs.service.ts).  A text is a sequence of pieces: *)
(* a piece is a quote, a comma, a line feed, or a run of other characters. *)
(***************************************************************************)
Quote == "\""
Comma == ","
LineFeed == "\n"

\* value.includes(c)
Includes(value, c) == \E i \in 1..Len(value) : value[i] = c

\* value.replace(/"/g, '""')
RECURSIVE DoubleQuotes(_)
DoubleQuotes(value) ==
    IF value = <<>> THEN <<>>
    ELSE IF Head(value) = Quote THEN <<Quote, Quote>> \o DoubleQuotes(Tail(value))
    ELSE <<Head(value)>> \o DoubleQuotes(Tail(value))

\* mutant: the value is wrapped in quotes, its own quotes left single
escapeCsvKeepsQuotes(value) ==
    IF Includes(value, Quote) \/ Includes(value, Comma) \/ Includes(value, LineFeed)
    THEN <<Quote>> \o value \o <<Quote>>
    ELSE value

\* escapeCsv(value), value being a string
escapeCsv(value) ==
    IF Includes(value, Quote) \/ Includes(value, Comma) \/ Includes(value, LineFeed)
    THEN <<Quote>> \o DoubleQuotes(value) \o <<Quote>>
    ELSE value

\* valueOrEmpty(row[field]): a column the row lacks is undefined
valueOrEmpty(row, field) == IF field \in DOMAIN row THEN row[field] ELSE <<>>

\* the text of a message of processFile
MessageText(message) ==
    CASE message = "name is required, invalid email" ->
            <<"name is required", Comma, " invalid email">>
      [] message = "name is required, company is required" ->
            <<"name is required", Comma, " company is required">>
      [] message = "invalid email, company is required" ->
            <<"invalid email", Comma, " company is required">>
      [] message = "name is required, invalid email, company is required" ->
            <<"name is required", Comma, " invalid email", Comma,
              " company is required">>
      [] OTHER -> <<message>>

\* formatErrorRow(error)
formatErrorRow(error) ==
    <<<<ToString(error.rowNumber)>>,
      valueOrEmpty(error.row, "name"),
      valueOrEmpty(error.row, "email"),
      valueOrEmpty(error.row, "phone"),
      valueOrEmpty(error.row, "company"),
      MessageText(error.message)>>

\* Array.prototype.join of texts
RECURSIVE Join(_, _)
Join(texts, separator) ==
    IF texts = <<>> THEN <<>>
    ELSE IF Len(texts) = 1 THEN texts[1]
    ELSE texts[1] \o <<separator>> \o Join(Tail(texts), separator)

ERROR_REPORT_HEADER ==
    <<<<"rowNumber">>, <<"name">>, <<"email">>, <<"phone">>, <<"company">>,
      <<"error">>>>

\* cols.map(escapeCsv).join(",")
CsvLine(cols) == Join([i \in 1..Len(cols) |-> escapeCsv(cols[i])], Comma)

\* buildJobErrorReport, job being the lean document Job.findById read
buildJobErrorReport(doc) ==
    IF doc = NoJob THEN [status |-> "null"]
    ELSE LET rows == [i \in 1..Len(doc.errors) |-> formatErrorRow(doc.errors[i])]
             all == <<ERROR_REPORT_HEADER>> \o rows
         IN [status |-> "report",
             csv |-> Join([i \in 1..Len(all) |-> CsvLine(all[i])], LineFeed),
             errorCount |-> Len(rows)]

\* downloadErrorReport for job j: the lookup and the report built from it
DownloadErrorReport(j) ==
    /\ report' = buildJobErrorReport(store[j])
    /\ UNCHANGED <<upc, fileLen, answered>>
    /\ UNCHANGED <<queueVars, storeVars, options, wpc, importVars, sseVars>>

(***************************************************************************)
(* The report of one job: the job is absent, or a finished job holding at  *)
(* most MaxReportErrors Error Records whose rows hold quotes, commas and    *)
(* line feeds.                                                             *)
(***************************************************************************)
\* the values of a name column
ReportNames ==
    {<<>>, <<"a">>, <<Comma>>, <<Quote>>, <<LineFeed>>, <<"a", Quote, Quote, "b">>,
     <<Quote, "a", Comma, "b", Quote>>, <<"a", LineFeed, Quote>>}

\* rows as a retained Error Record holds them; a raw row may lack a column
ReportRows ==
    {[name |-> n, email |-> <<"a@b.a">>, phone |-> <<>>, company |-> <<"b">>] :
        n \in ReportNames}
    \cup {[name |-> n, email |-> <<"Ba">>] : n \in {<<>>, <<Comma, Quote>>}}

ReportMessages == {"email must be unique", "name is required, invalid email"}

\* the Error Records a job may retain: row numbers increase along the list
ReportErrors(n) ==
    {e \in [1..n -> [rowNumber : 1..(n + 1), message : ReportMessages,
                     row : ReportRows]] :
        /\ \A i \in 1..n : e[i].rowNumber \in {i, i + 1}
        /\ \A i \in 1..(n - 1) : e[i].rowNumber < e[i + 1].rowNumber}

ReportedJob(e) ==
    [PendingJob EXCEPT !.status = "completed", !.completedAt = TRUE,
                       !.errors = e, !.failedCount = Len(e),
                       !.processedRows = e[Len(e)].rowNumber,
                       !.successCount = e[Len(e)].rowNumber - Len(e),
                       !.totalRows = e[Len(e)].rowNumber]

InitReport ==
    /\ queue = <<>>
    /\ running = FALSE
    /\ started = TRUE
    /\ awaiting = {}
    /\ immediates = 0
    /\ upc = [j \in Jobs |-> "none"]
    /\ fileLen = [j \in Jobs |-> 0]
    /\ report = NoReport
    /\ answered = <<>>
    /\ \E d \in {NoJob, [PendingJob EXCEPT !.status = "completed",
                                          !.completedAt = TRUE]}
                \cup {ReportedJob(e) : e \in UNION {ReportErrors(n) : n \in 1..MaxReportErrors}} :
          store = [j \in Jobs |-> IF j = 1 THEN d ELSE NoJob]
    /\ customers = {}
    /\ options = DefaultOptions
    /\ wpc = [j \in Jobs |-> "none"]
    /\ job = [j \in Jobs |-> NoJob]
    /\ progress = [j \in Jobs |-> NewProgress(0)]
    /\ currentRow = [j \in Jobs |-> 1]
    /\ pos = [j \in Jobs |-> 0]
    /\ parsed = [j \in Jobs |-> NoRow]
    /\ err = [j \in Jobs |-> Undefined]
    /\ unlinks = [j \in Jobs |-> 0]
    /\ responses = <<>>
    /\ enqueued = <<>>
    /\ handed = <<>>
    /\ published = [j \in Jobs |-> <<>>]
    /\ clientsByJobId = <<>>
    /\ spc = [o \in Observers |-> "none"]
    /\ watched = [o \in Observers |-> 0]
    /\ snapshot = [o \in Observers |-> NoJob]
    /\ received = [o \in Observers |-> <<>>]
    /\ broken = [o \in Observers |-> FALSE]
    /\ ended = [o \in Observers |-> "no"]
    /\ closed = [o \in Observers |-> FALSE]
    /\ pinging = [o \in Observers |-> FALSE]
    /\ calls = 0

NextReport == DownloadErrorReport(1)

SpecReport == InitReport /\ [][NextReport]_vars

(***************************************************************************)
(* Properties.                                                             *)
(***************************************************************************)
Terminal == {"completed", "failed"}

\* a processCsvJob invocation is in progress: called and not yet settled
InFlight(j) == wpc[j] \notin {"none", "resolved", "rejected"}

\* C1: at most one worker invocation is in progress at any moment, and at
\* most one drain loop is alive, whatever the interleaving of enqueue(),
\* start(), stop() and worker completions.
C1_SingleWorker ==
    /\ Cardinality({j \in Jobs : InFlight(j)}) <= 1
    /\ Cardinality(awaiting) <= 1

\* C1 witness: a task arrived by enqueue() on a started queue while a worker
\* invocation was in progress, and waits.
C1_Witness ==
    /\ started /\ running
    /\ queue # <<>>
    /\ \E j \in Jobs : InFlight(j) /\ j \in awaiting

\* C2: the tasks handed to the worker are a prefix of the tasks passed to
\* enqueue: started in enqueue order, none skipped, none started twice.
C2_FifoPrefix ==
    /\ Len(handed) <= Len(enqueued)
    /\ handed = SubSeq(enqueued, 1, Len(handed))
    /\ \A i, k \in 1..Len(handed) : i # k => handed[i] # handed[k]

\* C2 witness: two tasks were handed over, enqueued in another order than
\* their jobs were created.
C2_Witness ==
    /\ Len(handed) >= 2
    /\ handed[1] > handed[2]

\* C3 as stated: once the worker has been started on a task B, the job of
\* every task A started before it is persisted completed or failed, for
\* every outcome of A's reads and saves (under the options processCsvJob
\* uses).
C3_PredecessorTerminal ==
    options = DefaultOptions =>
        \A i, k \in 1..Len(handed) :
            (i < k /\ store[handed[i]] # NoJob) =>
                store[handed[i]].status \in Terminal

\* C4: in every snapshot of a job saved to the Job Store, processedRows
\* equals successCount + failedCount.
C4_ProcessedIsSum ==
    \A j \in Jobs :
        store[j] # NoJob =>
            store[j].processedRows = store[j].successCount + store[j].failedCount

\* C4 witness: a snapshot saved during the row loop, holding a success and a
\* failure.
C4_Witness ==
    /\ store[1] # NoJob
    /\ store[1].status = "processing"
    /\ store[1].successCount >= 1
    /\ store[1].failedCount >= 1
    /\ wpc[1] = "read"

\* C5 as stated: every job persisted as completed or failed has
\* processedRows = totalRows (under the options processCsvJob uses).
C5_Original ==
    options = DefaultOptions =>
        \A j \in Jobs :
            store[j].status \in Terminal =>
                store[j].processedRows = store[j].totalRows

\* C5 amended: every job persisted as completed has processedRows =
\* totalRows; a job persisted as failed may have processed fewer rows.
C5_CompletedAllRows ==
    \A j \in Jobs :
        store[j].status = "completed" =>
            store[j].processedRows = store[j].totalRows

\* C5 witness: a completed job of several rows, one of which failed on
\* insert.
C5_Witness ==
    /\ store[1].status = "completed"
    /\ store[1].totalRows >= 2
    /\ \E i \in 1..Len(store[1].errors) :
            store[1].errors[i].message = "failed to insert customer"

\* the status changes a save may make
StatusSteps ==
    {<<"pending", "processing">>, <<"processing", "completed">>,
     <<"processing", "failed">>}

\* C6: a job's persisted status only moves pending -> processing ->
\* completed | failed, a job is created pending, and once a job is persisted
\* completed or failed no later save changes the document.
C6_Lifecycle ==
    [][\A j \in Jobs :
        /\ (store[j] = NoJob /\ store'[j] # NoJob) => store'[j].status = "pending"
        /\ (store[j] # NoJob /\ store'[j] # NoJob) =>
              /\ \/ store'[j].status = store[j].status
                 \/ <<store[j].status, store'[j].status>> \in StatusSteps
              /\ store[j].status \in Terminal => store'[j] = store[j]]_vars

\* C6 witness: a job was persisted failed with an Error Record, and its
\* invocation has settled.
C6_Witness ==
    /\ store[1].status = "failed"
    /\ store[1].errors # <<>>
    /\ wpc[1] = "rejected"

\* C7 as stated: when a processCsvJob invocation has settled, whatever its
\* outcome, fs.unlink has been called exactly once on its file.
C7_UnlinkedOnce ==
    options = DefaultOptions =>
        \A j \in Jobs :
            wpc[j] \in {"resolved", "rejected"} => unlinks[j] = 1

\* C8 as stated: a job persisted as failed has completedAt set and an error
\* list holding exactly one Error Record with rowNumber 0.
C8_FatalRecorded ==
    options = DefaultOptions =>
        \A j \in Jobs :
            store[j].status = "failed" =>
                /\ store[j].completedAt
                /\ Cardinality({i \in 1..Len(store[j].errors) :
                                    store[j].errors[i].rowNumber = 0}) = 1

\* C9 as stated: whenever processCsvJob has thrown to the worker loop, the
\* job's persisted status is failed.
C9_FailedBeforeThrow ==
    options = DefaultOptions =>
        \A j \in Jobs :
            wpc[j] = "rejected" => store[j].status = "failed"

\* C10: when the worker invocation of a task throws, the drain loop itself
\* goes on: it starts the task queued behind it, or (nothing queued, or
\* stopped) ends with running = false; running = true never holds without
\* a live drain loop.
C10_LoopSurvivesThrow ==
    /\ [](running => awaiting # {})
    /\ [][\A t \in Jobs :
            (t \in awaiting /\ wpc[t] = "rejected" /\ t \notin awaiting') =>
                IF started /\ queue # <<>>
                THEN /\ handed' = Append(handed, Head(queue))
                     /\ awaiting' = {Head(queue)}
                     /\ running'
                ELSE /\ ~running'
                     /\ awaiting' = {}
                     /\ handed' = handed]_vars

\* C10 witness: a worker invocation threw and the task behind it was started.
C10_Witness ==
    \E i \in 1..(Len(handed) - 1) :
        /\ wpc[handed[i]] = "rejected"
        /\ wpc[handed[i + 1]] # "none"

\* the positions of the done events among the events published for job j
DoneEvents(j) ==
    {i \in 1..Len(published[j]) : published[j][i].event = "done"}

\* a processCsvJob invocation has settled: returned or thrown
Settled(j) == wpc[j] \in {"resolved", "rejected"}

\* C11 as stated: for every job the importer was run on, once the run has
\* settled broadcastAndClose was called exactly once with a done event, and
\* the status of that event is the job's persisted status (under the options
\* processCsvJob uses).
C11_DoneExactlyOnce ==
    options = DefaultOptions =>
        \A j \in Jobs :
            (Settled(j) /\ store[j] # NoJob) =>
                /\ Cardinality(DoneEvents(j)) = 1
                /\ \A i \in DoneEvents(j) :
                        published[j][i].data.status = store[j].status

\* C12 as stated: once the done event of a job has been published, no
\* observer of that job is in the registry, whatever the interleaving of
\* streamJob with the importer (under the options processCsvJob uses).
C12_NoObserverAfterDone ==
    options = DefaultOptions =>
        \A j \in Jobs :
            DoneEvents(j) # {} => ClientsOf(clientsByJobId, j) = <<>>

\* C13: after the done event of a job has been published, no further event
\* is published for that job: the published sequence of a job holds at most
\* one done event, as its last element, and once it holds one it never
\* changes again.
C13_DoneIsLast ==
    /\ [](\A j \in Jobs : \A i \in DoneEvents(j) : i = Len(published[j]))
    /\ [][\A j \in Jobs :
            DoneEvents(j) # {} => published'[j] = published[j]]_vars

\* C13 witness: a failed job's run has settled after the progress events of
\* several saves and the final done event were published.
C13_Witness ==
    /\ Settled(1)
    /\ Len(published[1]) >= 4
    /\ published[1][Len(published[1])] = Event("done", DonePayload(1, "failed"))
    /\ published[1][Len(published[1]) - 1].event = "progress"

\* the event lines of kind `event` written on the response of observer o
EventsSent(o, event) ==
    {i \in 1..Len(received[o]) : received[o][i] = EventLine(event)}

\* C14 as stated: an observer whose streamJob read the job as completed or
\* failed is sent, on a connection whose writes succeed, exactly one done
\* event and no progress event (under the options processCsvJob uses).
C14_TerminalAttachOnlyDone ==
    options = DefaultOptions =>
        \A o \in Observers :
            (spc[o] = "finished" /\ isTerminal(snapshot[o].status) /\ ~broken[o]) =>
                /\ Cardinality(EventsSent(o, "done")) = 1
                /\ EventsSent(o, "progress") = {}

\* the observers registered for some job
Registered == UNION {Members(clientsByJobId[j]) : j \in DOMAIN clientsByJobId}

\* C15: an observer whose streamJob read the job as completed or failed is
\* never in the observer registry, its handler never reaches the part that
\* registers, and once the handler has run on the document the response
\* was ended by streamJob itself.
C15_TerminalNeverRegistered ==
    \A o \in Observers :
        snapshot[o].status \in Terminal =>
            /\ o \notin Registered
            /\ spc[o] # "attached" /\ ~pinging[o]
            /\ spc[o] = "finished" => ended[o] = "streamJob"

\* C15 witness: an observer read the job as failed, was sent done and had its
\* response ended by streamJob, while the importer's invocation is still
\* unlinking the file.
C15_Witness ==
    /\ spc[1] = "finished"
    /\ snapshot[1].status = "failed"
    /\ ended[1] = "streamJob"
    /\ EventsSent(1, "done") # {}
    /\ wpc[1] = "unlink"

\* the last event published for job j
LastPublished(j) == published[j][Len(published[j])]

\* C16: in a call of broadcast(jobId, ...) every observer attached to the
\* job whose write succeeds is written the event line and the data line,
\* wherever the observers whose write throws stand in the set; these are
\* written nothing, and the call returns with the registry as it was (an
\* error raised to the caller would end the loop before the observers
\* behind the failing one).
C16_BroadcastSkipsFailures ==
    [][\A j \in Jobs :
        (published'[j] # published[j] /\ LastPublished(j)'.event = "progress") =>
            /\ clientsByJobId' = clientsByJobId
            /\ calls' = calls + 1
            /\ \A o \in Observers :
                  received'[o] =
                     IF o \in Members(ClientsOf(clientsByJobId, j)) /\ ~broken[o]
                     THEN received[o] \o <<EventLine("progress"),
                                           DataLine(LastPublished(j)'.data)>>
                     ELSE received[o]]_vars

\* C16 witness: broadcast was called on a set whose first observer throws on
\* write; the observer behind it was written the event.
C16_Witness ==
    /\ 1 \in DOMAIN clientsByJobId
    /\ Len(clientsByJobId[1]) = 2
    /\ broken[clientsByJobId[1][1]]
    /\ ~broken[clientsByJobId[1][2]]
    /\ published[1] # <<>>
    /\ received[clientsByJobId[1][1]] = <<>>
    /\ EventsSent(clientsByJobId[1][2], "progress") # {}

\* an event of `published` without the id of its job
Anonymous(ev) == [ev EXCEPT !.data.jobId = 0]

\* what job j's run produced, without the id of the job: the events handed
\* to the broadcaster, the persisted document, the Customer records created
Produced(j) ==
    [events |-> [i \in 1..Len(published[j]) |-> Anonymous(published[j][i])],
     persisted |-> store[j],
     created |-> {[c EXCEPT !.jobId = 0] : c \in {d \in customers : d.jobId = j}}]

\* the states in which job j's invocation waits for a save of its document
AwaitsSave(j) ==
    wpc[j] \in {"save1", "emit0", "emit", "emitEnd", "emitErr", "final", "failSave"}

C18_ErrorsCapped ==
    \A j \in Jobs :
        store[j] # NoJob =>
            /\ Len(store[j].errors) <= options.maxErrors
            /\ Len(store[j].errors) =
                  IF store[j].failedCount < options.maxErrors
                  THEN store[j].failedCount ELSE options.maxErrors

\* C18 witness: a persisted snapshot whose failedCount exceeds the number of
\* retained records, the list being full, after a validation failure and an
\* insert failure.
C18_Witness ==
    /\ store[1] # NoJob
    /\ Len(store[1].errors) = options.maxErrors
    /\ store[1].failedCount > Len(store[1].errors)
    /\ store[1].errors[1].message = "name is required"
    /\ progress[1].lastError = "email must be unique"

\* C19: every row the loop reads is settled in exactly one of three ways.
\* Read and found invalid: failedCount and processedRows go up by one in
\* that step, no Customer.create is made.  Read and found valid: nothing is
\* counted until its Customer.create settles; then either the insert failed
\* (failedCount and processedRows up by one, successCount and the collection
\* unchanged) or it succeeded (successCount and processedRows up by one,
\* failedCount unchanged, one record added).  After each the loop goes on
\* (next read, or the periodic flush), and every row read is counted once.
C19_RowOutcomes ==
    /\ [](\A j \in Jobs :
            pos[j] = progress[j].processedRows + (IF wpc[j] = "insert" THEN 1 ELSE 0))
    /\ [][\A j \in Jobs :
            LET p == progress[j]
                q == progress'[j]
                failed == /\ q.failedCount = p.failedCount + 1
                          /\ q.successCount = p.successCount
                          /\ q.processedRows = p.processedRows + 1
                          /\ customers' = customers
                          /\ wpc'[j] \in {"read", "emit"}
                succeeded == /\ q.successCount = p.successCount + 1
                             /\ q.failedCount = p.failedCount
                             /\ q.processedRows = p.processedRows + 1
                             /\ Cardinality(customers') = Cardinality(customers) + 1
                             /\ wpc'[j] \in {"read", "emit"}
                counters == <<q.processedRows, q.successCount, q.failedCount>>
                            # <<p.processedRows, p.successCount, p.failedCount>>
            IN /\ (wpc[j] = "read" /\ pos'[j] # pos[j]) =>
                     \/ failed /\ parsed'[j] = NoRow
                     \/ /\ wpc'[j] = "insert"
                        /\ ~counters
                        /\ customers' = customers
                        /\ Issues(parsed'[j]) = <<>>
               /\ (wpc[j] = "insert" /\ wpc'[j] # "insert") => (failed \/ succeeded)
               /\ counters =>
                     \/ wpc[j] = "read" /\ pos'[j] # pos[j]
                     \/ wpc[j] = "insert"]_vars
    /\ [][customers' # customers => \E j \in Jobs : wpc[j] = "insert"]_vars

\* C19 witness: a file of three rows was read to its end under the default
\* options: one row failed validation, one failed on insert, one was inserted.
C19_Witness ==
    /\ options = DefaultOptions
    /\ wpc[1] = "emitEnd"
    /\ progress[1].processedRows = 3
    /\ progress[1].successCount = 1
    /\ Len(progress[1].errors) = 2
    /\ progress[1].errors[1].message = "name is required"
    /\ progress[1].errors[2].message = "failed to insert customer"

C21_AnsweredBeforeInvoked ==
    \A j \in DOMAIN answered : answered[j] \in {"no", "none"}

\* C22 as stated: between the calls made to the queue, whenever a task is
\* queued or in flight a drain cycle is running.
C22_Original ==
    (queue # <<>> \/ awaiting # {}) => running

\* C22 amended: a drain cycle is running whenever a task is in flight, and,
\* on a queue that is started, whenever a task is queued; an enqueue on a
\* started queue with no drain cycle starts one, which hands the oldest
\* task to the worker.  On a queue not started (or stopped) enqueue only
\* queues the task.
C22_DrainRunning ==
    /\ [](awaiting # {} => running)
    /\ []((started /\ queue # <<>>) => running)
    /\ [][(enqueued' # enqueued /\ started /\ ~running) =>
            /\ running'
            /\ Len(handed') = Len(handed) + 1
            /\ handed'[Len(handed')] = Head(queue \o <<enqueued'[Len(enqueued')]>>)]_vars
    /\ [][(enqueued' # enqueued /\ ~started) =>
            /\ running' = running
            /\ handed' = handed
            /\ queue' = Append(queue, enqueued'[Len(enqueued')])]_vars

\* C22 witness: the queue was idle and started, one enqueue was made, and
\* its drain cycle is running with the task in flight.
C22_Witness ==
    /\ started /\ running
    /\ Len(enqueued) = 1
    /\ awaiting = {enqueued[1]}
    /\ queue = <<>>

\* the elements of a sequence
Range(seq) == {seq[i] : i \in 1..Len(seq)}

\* C23: on a queue that is started and never stopped, every enqueued task is
\* eventually handed to the worker, provided every worker invocation
\* settles; until then the task is in the queue, whenever it was enqueued.
C23_EventuallyHanded ==
    /\ \A j \in Jobs : (started /\ j \in Range(enqueued)) ~> (j \in Range(handed))
    /\ [](\A j \in Range(enqueued) : j \in Range(queue) \/ j \in Range(handed))

\* C23 witness: tasks were enqueued while a drain cycle was running, all were
\* handed to the worker, and the cycle has ended.
C23_Witness ==
    /\ started /\ ~running
    /\ Len(enqueued) = NumJobs
    /\ handed = enqueued
    /\ queue = <<>> /\ awaiting = {}

\* C24: a job whose file has a header and no data row never has a persisted
\* count other than 0, an Error Record or a Customer record; and when its
\* import ends without a failed operation (the invocation resolves), it is
\* persisted completed with totalRows = 0 and processedRows = 0.
C24_EmptyFileCompletes ==
    \A j \in Jobs :
        (fileLen[j] = 0 /\ store[j] # NoJob) =>
            /\ store[j].totalRows = 0
            /\ store[j].processedRows = 0
            /\ store[j].successCount = 0
            /\ store[j].failedCount = 0
            /\ store[j].errors = <<>>
            /\ {c \in customers : c.jobId = j} = {}
            /\ wpc[j] = "resolved" =>
                  /\ store[j].status = "completed"
                  /\ store[j].completedAt

\* C24 witness: the import of a file without data rows has ended, persisted
\* completed, after its two forced flushes.
C24_Witness ==
    /\ upc[1] = "responded"
    /\ fileLen[1] = 0
    /\ wpc[1] = "resolved"
    /\ store[1].status = "completed"
    /\ Len(published[1]) = 5

\* C25: no observer whose connection was closed by the client is in the
\* registry, at whichever point of streamJob the connection was closed.
C25_ClosedNotRegistered ==
    \A o \in Observers : closed[o] => o \notin Registered

\* C26: the row that a retained Error Record carries is the normalized row:
\* every field trimmed and the email lowercased, whether the row failed
\* validation or its insert failed (under the options processCsvJob uses).
C26_ErrorRowsNormalized ==
    options = DefaultOptions =>
        \A j \in Jobs :
            store[j] # NoJob =>
                \A i \in 1..Len(store[j].errors) :
                    store[j].errors[i].row = normalizeRow(store[j].errors[i].row)

\* a strict reader of comma-separated text: the records of the text, each
\* the sequence of its fields.  A field that opens with a quote runs to its
\* closing quote, a doubled quote inside it standing for one quote; a quote
\* anywhere else, or text after a closing quote, makes the text unreadable
\* (no record at all).  mode: "plain", "quoted", or "closed" after the
\* closing quote
RECURSIVE ParseCsv(_, _, _, _, _)
ParseCsv(rest, mode, field, record, records) ==
    IF rest = <<>>
    THEN IF mode = "quoted" THEN <<>> ELSE Append(records, Append(record, field))
    ELSE IF mode = "quoted"
    THEN IF Head(rest) # Quote
         THEN ParseCsv(Tail(rest), mode, Append(field, Head(rest)), record, records)
         ELSE IF Len(rest) >= 2 /\ rest[2] = Quote
         THEN ParseCsv(Tail(Tail(rest)), mode, Append(field, Quote), record, records)
         ELSE ParseCsv(Tail(rest), "closed", field, record, records)
    ELSE IF Head(rest) = Comma
         THEN ParseCsv(Tail(rest), "plain", <<>>, Append(record, field), records)
         ELSE IF Head(rest) = LineFeed
         THEN ParseCsv(Tail(rest), "plain", <<>>, <<>>,
                       Append(records, Append(record, field)))
         ELSE IF mode = "closed" THEN <<>>
         ELSE IF Head(rest) # Quote
         THEN ParseCsv(Tail(rest), mode, Append(field, Head(rest)), record, records)
         ELSE IF field = <<>>
         THEN ParseCsv(Tail(rest), "quoted", field, record, records)
         ELSE <<>>

\* the records a reader finds in a report
RecordsOf(csv) == ParseCsv(csv, "plain", <<>>, <<>>, <<>>)

\* C27: the report of an absent job is null; the report of a job holds,
\* read back as comma-separated text, the fixed header and then one record
\* per retained Error Record, in the stored order, which is the order of the
\* row numbers, each with the row number, the four columns and the message
\* as stored (a strict reader gets them back only when every field holding
\* a quote, a comma or a line feed is wrapped in quotes with its inner quotes
\* doubled); errorCount is the number of retained records.
C27_ErrorReport ==
    report # NoReport =>
        /\ store[1] = NoJob <=> report.status = "null"
        /\ store[1] # NoJob =>
              LET errors == store[1].errors
                  records == RecordsOf(report.csv)
              IN /\ report.status = "report"
                 /\ report.errorCount = Len(errors)
                 /\ Len(records) = 1 + Len(errors)
                 /\ records[1] = ERROR_REPORT_HEADER
                 /\ \A i \in 1..Len(errors) :
                       /\ records[i + 1][1] = <<ToString(errors[i].rowNumber)>>
                       /\ records[i + 1][2] = valueOrEmpty(errors[i].row, "name")
                       /\ records[i + 1][3] = valueOrEmpty(errors[i].row, "email")
                       /\ records[i + 1][4] = valueOrEmpty(errors[i].row, "phone")
                       /\ records[i + 1][5] = valueOrEmpty(errors[i].row, "company")
                       /\ records[i + 1][6] = MessageText(errors[i].message)
                       /\ Len(records[i + 1]) = 6
                 /\ \A i \in 1..(Len(errors) - 1) :
                       errors[i].rowNumber < errors[i + 1].rowNumber

\* C27 witness: the report of a job with two Error Records, whose names hold
\* a quote next to a comma and a line feed.
C27_Witness ==
    /\ report # NoReport
    /\ report.status = "report"
    /\ report.errorCount = 2
    /\ Includes(store[1].errors[1].row.name, Quote)
    /\ Includes(store[1].errors[1].row.name, Comma)
    /\ Includes(store[1].errors[2].row.name, LineFeed)
    /\ Includes(report.csv, LineFeed)

\* the first scan of job j's file (countRows) has not completed
BeforeFirstScan(j) == wpc[j] \in {"none", "find", "save1", "count"}

\* C28: in every snapshot of a job saved with status processing, completed
\* or failed, successCount + failedCount is at most totalRows; as long as
\* the first scan of the file has not completed, totalRows, successCount and
\* failedCount of the saved snapshot are all 0.
C28_CountsWithinTotal ==
    \A j \in Jobs :
        store[j] # NoJob =>
            /\ store[j].status \in {"processing", "completed", "failed"} =>
                  store[j].successCount + store[j].failedCount
                      <= store[j].totalRows
            /\ BeforeFirstScan(j) =>
                  /\ store[j].totalRows = 0
                  /\ store[j].successCount = 0
                  /\ store[j].failedCount = 0

\* C28 witness: a snapshot saved in the row loop with both a success and a
\* failure counted and rows of the total still to come.
C28_Witness ==
    /\ store[1] # NoJob
    /\ store[1].status = "processing"
    /\ store[1].successCount = 1
    /\ store[1].failedCount = 1
    /\ store[1].totalRows = 3
    /\ wpc[1] = "read"

\* the progress events published for job j, in publication order
ProgressEvents(j) == SelectSeq(published[j], LAMBDA e : e.event = "progress")

\* the counters a progress event or a saved snapshot carries
Counters(x) ==
    [processedRows |-> x.processedRows, successCount |-> x.successCount,
     failedCount |-> x.failedCount]

\* C29: along the progress events published for one job, processedRows,
\* successCount and failedCount never decrease, and every progress event is
\* published by the step whose save stored the snapshot with the counters
\* the event carries.
C29_EventsFollowSaves ==
    /\ [](\A j \in Jobs :
             \A i \in 1..(Len(ProgressEvents(j)) - 1) :
                LET a == ProgressEvents(j)[i].data
                    b == ProgressEvents(j)[i + 1].data IN
                /\ a.processedRows <= b.processedRows
                /\ a.successCount <= b.successCount
                /\ a.failedCount <= b.failedCount)
    /\ [][\A j \in Jobs :
             \A i \in (Len(published[j]) + 1)..Len(published'[j]) :
                published'[j][i].event = "progress" =>
                    /\ store'[j] # NoJob
                    /\ Counters(published'[j][i].data) = Counters(store'[j])
                    /\ published'[j][i].data.totalRows = store'[j].totalRows]_vars

\* C29 witness: a job's progress events with counters that grew in the row
\* loop and again by its end, the last one published after the row loop.
C29_Witness ==
    \E i, k \in 1..Len(ProgressEvents(1)) :
        /\ i < k
        /\ ProgressEvents(1)[i].data.processedRows = 2
        /\ ProgressEvents(1)[i].data.successCount = 1
        /\ ProgressEvents(1)[i].data.failedCount = 1
        /\ ProgressEvents(1)[k].data.processedRows = 3
        /\ ProgressEvents(1)[k].data.failedCount = 2
        /\ store[1].status = "processing"

\* how far job j's saved processedRows is behind the importer's counter
Lag(j) == progress[j].processedRows - store[j].processedRows

\* job j's importer awaits the save of a flush: the forced one before the
\* first row, a periodic one, the forced one after the last row, the forced
\* one of processFile's catch block
FlushStates == {"emit0", "emit", "emitEnd", "emitErr"}

\* C30 as stated (its conclusion): the saved processedRows is never behind
\* the importer's counter by progressEvery or more.
C30_Original ==
    \A j \in Jobs : store[j] # NoJob => Lag(j) < options.progressEvery

\* C30 amended: after a row is counted a flush starts exactly when
\* processedRows is a multiple of progressEvery; the other flushes are the
\* forced ones before the first row, after the last row and in processFile's
\* catch block; a flush saves the counters and then publishes one progress
\* event, or its save fails; between the flushes processFile saves and
\* publishes nothing.  Hence the saved processedRows is never behind the
\* importer's counter by more than progressEvery, and by progressEvery only
\* while a periodic flush awaits its save or after a save failed.
C30_FlushPoints ==
    /\ [](\A j \in Jobs :
             /\ store[j] # NoJob =>
                   /\ Lag(j) <= options.progressEvery
                   /\ Lag(j) = options.progressEvery =>
                         wpc[j] = "emit" \/ err[j] = "save failed"
             /\ wpc[j] = "emit0" => pos[j] = 0 /\ progress[j].processedRows = 0
             /\ wpc[j] = "emit" =>
                   /\ progress[j].processedRows > 0
                   /\ progress[j].processedRows % options.progressEvery = 0
             /\ wpc[j] = "emitEnd" =>
                   /\ pos[j] = fileLen[j]
                   /\ progress[j].processedRows = progress[j].totalRows)
    /\ [][\A j \in Jobs :
             /\ progress'[j].processedRows = progress[j].processedRows + 1 =>
                   /\ wpc'[j] = "emit" <=>
                         progress'[j].processedRows % options.progressEvery = 0
                   /\ wpc'[j] # "emit" => wpc'[j] = "read"
             /\ (wpc[j] \in {"count", "read", "insert"}) =>
                   store'[j] = store[j] /\ published'[j] = published[j]
             /\ (wpc[j] \in FlushStates /\ wpc'[j] # wpc[j]) =>
                   \/ /\ store'[j] # NoJob
                      /\ Counters(store'[j]) = Counters(progress[j])
                      /\ Len(published'[j]) = Len(published[j]) + 1
                      /\ published'[j][Len(published'[j])].event = "progress"
                      /\ Counters(published'[j][Len(published'[j])].data)
                            = Counters(progress[j])
                   \/ /\ store'[j] = store[j]
                      /\ published'[j] = published[j]
                      /\ err'[j] = "save failed"]_vars

\* C30 witness: with progressEvery = 2 and three rows, the flush after the
\* second row was saved and published, and the third row was counted
\* without a flush.
C30_Witness ==
    /\ options.progressEvery = 2
    /\ store[1] # NoJob
    /\ store[1].processedRows = 2
    /\ LastPublished(1).data.processedRows = 2
    /\ progress[1].processedRows = 3
    /\ wpc[1] = "read"

\* the rows of job j's file the loop has taken from the stream and not yet
\* counted
Unsettled(j) == pos[j] - progress[j].processedRows

\* the Customer records created for job j
CustomersOf(j) == {c \in customers : c.jobId = j}

\* C31: within one job at most one row is taken from the stream and not yet
\* counted, and exactly then its insert is in flight; the loop takes a row
\* only when neither an insert nor a flush of the job is awaited, and a step
\* creates at most one Customer record of the job, as the outcome of the
\* awaited insert.
C31_OneRowAtATime ==
    /\ [](\A j \in Jobs :
             /\ Unsettled(j) \in {0, 1}
             /\ Unsettled(j) = 1 <=> wpc[j] = "insert")
    /\ [][\A j \in Jobs :
             /\ pos'[j] # pos[j] =>
                   /\ wpc[j] = "read"
                   /\ pos'[j] = pos[j] + 1
                   /\ store'[j] = store[j]
             /\ CustomersOf(j)' # CustomersOf(j) =>
                   /\ wpc[j] = "insert" /\ wpc'[j] # "insert"
                   /\ Cardinality(CustomersOf(j)') = Cardinality(CustomersOf(j)) + 1
                   /\ progress'[j].processedRows = pos[j]]_vars

\* C31 witness: the insert of the second row is in flight, the first row
\* having been inserted and counted.
C31_Witness ==
    /\ wpc[1] = "insert"
    /\ pos[1] = 2
    /\ progress[1].processedRows = 1
    /\ progress[1].successCount = 1
    /\ Cardinality(CustomersOf(1)) = 1

\* the row numbers of a list of Error Records are strictly increasing and
\* within 1..total
RowNumbersOrdered(errors, total) ==
    /\ \A i \in 1..Len(errors) : errors[i].rowNumber \in 1..total
    /\ \A i \in 1..(Len(errors) - 1) :
          errors[i].rowNumber < errors[i + 1].rowNumber

\* C32: an Error Record is retained with the 1-based position in the file
\* of the row that failed (the row the loop took last); the row numbers of a
\* job's error list, in memory and as saved, are strictly increasing and
\* within 1..totalRows; whenever the loop is about to take a row, currentRow
\* = processedRows + 1.
C32_RowNumbers ==
    /\ [](\A j \in Jobs :
             /\ RowNumbersOrdered(progress[j].errors, progress[j].totalRows)
             /\ store[j] # NoJob =>
                   RowNumbersOrdered(store[j].errors, store[j].totalRows)
             /\ wpc[j] = "read" =>
                   currentRow[j] = progress[j].processedRows + 1)
    /\ [][\A j \in Jobs :
             Len(progress'[j].errors) > Len(progress[j].errors) =>
                 /\ Len(progress'[j].errors) = Len(progress[j].errors) + 1
                 /\ progress'[j].errors[Len(progress'[j].errors)].rowNumber
                       = pos'[j]
                 /\ pos'[j] \in 1..fileLen[j]]_vars

\* C32 witness: the first row was imported and the second and third rows
\* failed; their records carry the row numbers 2 and 3.
C32_Witness ==
    /\ store[1] # NoJob
    /\ store[1].status = "completed"
    /\ store[1].successCount = 1
    /\ Len(store[1].errors) = 2
    /\ store[1].errors[1].rowNumber = 2
    /\ store[1].errors[2].rowNumber = 3

\* observer o is in job j's set of the registry reg
Attached(reg, j, o) == o \in Members(ClientsOf(reg, j))

\* C33: a call of broadcast leaves the registry as it was, the observers
\* whose write failed included; an observer leaves a job's set only in a
\* call of removeClient for it (in a step that sends no event) or in
\* a call of broadcastAndClose for its job (which deletes the job's entry).
C33_BroadcastKeepsRegistry ==
    [][\A j \in Jobs :
        /\ (published'[j] # published[j] /\ LastPublished(j)'.event = "progress") =>
              /\ clientsByJobId' = clientsByJobId
              /\ \A o \in Observers :
                    (Attached(clientsByJobId, j, o) /\ broken[o]) =>
                        Attached(clientsByJobId', j, o)
        /\ \A o \in Observers :
              (Attached(clientsByJobId, j, o) /\ ~Attached(clientsByJobId', j, o)) =>
                  \/ /\ clientsByJobId' = removeClient(clientsByJobId, j, o)
                     /\ UNCHANGED <<published, received>>
                  \/ /\ clientsByJobId' = MapDelete(clientsByJobId, j)
                     /\ published'[j] # published[j]
                     /\ LastPublished(j)'.event = "done"]_vars

\* C33 witness: three calls were made, two attaching observers to job 2, the
\* first of which throws on write, and one broadcasting to job 2; the failing
\* observer is still attached.
C33_Witness ==
    /\ calls = 3
    /\ 2 \in DOMAIN clientsByJobId
    /\ Len(clientsByJobId[2]) = 2
    /\ broken[clientsByJobId[2][1]]
    /\ Len(published[2]) = 1
    /\ EventsSent(clientsByJobId[2][2], "progress") # {}

\* C34: the registry holds no job entry with an empty observer set, and no
\* observer twice in a set; in every state the calls lead to, removeClient
\* of a job's only observer deletes the job's entry, removeClient of one of
\* several observers removes that one only, and removeClient of an observer
\* that is not attached to the job returns the registry as it is.
C34_NoEmptyEntry ==
    /\ \A j \in DOMAIN clientsByJobId :
          /\ clientsByJobId[j] # <<>>
          /\ Cardinality(Members(clientsByJobId[j])) = Len(clientsByJobId[j])
    /\ \A j \in Jobs, o \in Observers :
          LET after == removeClient(clientsByJobId, j, o) IN
          IF ~Attached(clientsByJobId, j, o)
          THEN after = clientsByJobId
          ELSE /\ \A k \in DOMAIN clientsByJobId \ {j} :
                     k \in DOMAIN after /\ after[k] = clientsByJobId[k]
               /\ IF Members(clientsByJobId[j]) = {o}
                  THEN j \notin DOMAIN after
                  ELSE /\ j \in DOMAIN after
                       /\ Members(after[j]) = Members(clientsByJobId[j]) \ {o}

\* C34 witness: four calls were made; an observer was attached to job 1,
\* written a progress event, and removed as the only observer of job 1,
\* whose entry is gone while job 2 keeps its own.
C34_Witness ==
    /\ calls = 4
    /\ 1 \notin DOMAIN clientsByJobId
    /\ 2 \in DOMAIN clientsByJobId
    /\ Len(published[1]) = 1
    /\ LastPublished(1).event = "progress"
    /\ \E o \in Observers :
          received[o] = <<EventLine("progress"), DataLine(LastPublished(1).data)>>

\* the last two chunks written on the response of observer o, in rc
LastChunks(rc, o) == SubSeq(rc[o], Len(rc[o]) - 1, Len(rc[o]))

\* C35: a call of broadcastAndClose(jobId, "done", data) writes the event
\* line and the data line on the response of every observer attached to the
\* job at the call whose write does not throw, calls res.end() on the
\* response of every observer attached at the call, the throwing ones
\* included, writes and ends nothing else, and leaves the registry without
\* an entry for the job and with its other entries as they were.
C35_CloseReachesAll ==
    [][\A j \in Jobs :
        (published'[j] # published[j] /\ LastPublished(j)'.event = "done") =>
            /\ j \notin DOMAIN clientsByJobId'
            /\ clientsByJobId' = MapDelete(clientsByJobId, j)
            /\ \A o \in Observers :
                  IF Attached(clientsByJobId, j, o)
                  THEN /\ ended'[o] # "no"
                       /\ ended[o] = "no" => ended'[o] = "broadcastAndClose"
                       /\ IF broken[o] THEN received'[o] = received[o]
                          ELSE /\ Len(received'[o]) >= Len(received[o]) + 2
                               /\ LastChunks(received', o) =
                                     <<EventLine("done"),
                                       DataLine(LastPublished(j)'.data)>>
                  ELSE /\ ended'[o] = ended[o]
                       /\ received'[o] = received[o]]_vars

\* C35 witness: broadcastAndClose was called for job 1 with two observers
\* attached, one of which throws on write: both were ended by the call, the
\* other one was written the done event, and the entry of job 1 is gone.
C35_Witness ==
    /\ 1 \notin DOMAIN clientsByJobId
    /\ published[1] # <<>>
    /\ LastPublished(1).event = "done"
    /\ \E o, q \in Observers :
          /\ broken[o] /\ ~broken[q]
          /\ ended[o] = "broadcastAndClose" /\ ended[q] = "broadcastAndClose"
          /\ received[o] = <<>>
          /\ received[q] = <<EventLine("done"), DataLine(LastPublished(1).data)>>

\* C36: the successCount of every saved snapshot is at most the number of
\* Customer records carrying the job's id, and equal to that number in the
\* snapshot of a job saved as completed.
C36_SuccessesAreRecords ==
    \A j \in Jobs :
        store[j] # NoJob =>
            /\ store[j].successCount <= Cardinality(CustomersOf(j))
            /\ store[j].status = "completed" =>
                  store[j].successCount = Cardinality(CustomersOf(j))

\* C36 witness: a job saved as completed after one row was imported and two
\* rows failed, one of them on a duplicate email; one Customer record
\* carries its id.
C36_Witness ==
    /\ store[1] # NoJob
    /\ store[1].status = "completed"
    /\ store[1].successCount = 1
    /\ store[1].failedCount = 2
    /\ Cardinality(CustomersOf(1)) = 1
    /\ \E i \in 1..Len(store[1].errors) :
          store[1].errors[i].message = "email must be unique"

\* the payloads of the progress events written on the response of observer
\* o, in the order they were written
ProgressSeen(o) ==
    LET at == SelectSeq([i \in 1..Len(received[o]) |-> i],
                        LAMBDA i : received[o][i] = EventLine("progress"))
    IN [k \in 1..Len(at) |-> received[o][at[k] + 1].data]

\* C37: on every observer connection at most one done event is written, the
\* done event with its data line is the last thing written, and the
\* processedRows of the progress events written, the snapshot streamJob
\* sends first included, never decrease.
C37_ObserverSeesOrderedEvents ==
    \A o \in Observers :
        /\ Cardinality(EventsSent(o, "done")) <= 1
        /\ \A i \in EventsSent(o, "done") :
              /\ Len(received[o]) = i + 1
              /\ received[o][i + 1].line = "data"
        /\ \A i \in EventsSent(o, "progress") :
              /\ i < Len(received[o])
              /\ received[o][i + 1].line = "data"
        /\ \A k \in 1..(Len(ProgressSeen(o)) - 1) :
              ProgressSeen(o)[k].processedRows
                  <= ProgressSeen(o)[k + 1].processedRows

\* C37 witness: an observer attached while the job was processing was
\* written the snapshot with no row processed, then a progress event with
\* one row processed, then the done event of broadcastAndClose.
C37_Witness ==
    \E o \in Observers :
        /\ ended[o] = "broadcastAndClose"
        /\ Cardinality(EventsSent(o, "done")) = 1
        /\ Len(ProgressSeen(o)) >= 2
        /\ ProgressSeen(o)[1].processedRows = 0
        /\ ProgressSeen(o)[Len(ProgressSeen(o))].processedRows = 1

\* C38: a task is taken from the queue only in a step that leaves the queue
\* started; stop() takes no task, leaves the queued tasks and the task in
\* flight as they are, and the task in flight still settles; an enqueue on a
\* queue that is not started only appends the task; whatever the calls of
\* stop() and start(), the tasks enqueued are the tasks handed to the worker
\* followed by the tasks still queued, in enqueue order; and if from some
\* moment on the queue stays started, every task enqueued is handed to the
\* worker.
C38_StopStartKeepsTasks ==
    /\ [](enqueued = handed \o queue)
    /\ [][handed' # handed =>
            /\ started'
            /\ Len(handed') = Len(handed) + 1
            /\ handed'[Len(handed')] = Head(queue \o <<enqueued'[Len(enqueued')]>>)]_vars
    /\ [][(started /\ ~started') =>
            /\ queue' = queue /\ handed' = handed
            /\ awaiting' = awaiting /\ wpc' = wpc]_vars
    /\ [][(enqueued' # enqueued /\ ~started) =>
            /\ queue' = Append(queue, enqueued'[Len(enqueued')])
            /\ handed' = handed /\ awaiting' = awaiting]_vars
    /\ \A j \in Jobs : (j \in awaiting) ~> Settled(j)
    /\ (<>[]started) =>
          \A j \in Jobs : (j \in Range(enqueued)) ~> (j \in Range(handed))

\* C38 witness: the queue was stopped while a task was in flight and two
\* more were queued; the task in flight has settled, the drain cycle has
\* ended, and the two tasks are kept in the stopped queue.
C38_Witness ==
    /\ ~started /\ ~running
    /\ Len(handed) = 1
    /\ Settled(handed[1])
    /\ awaiting = {}
    /\ Len(queue) = 2

====
